---- MODULE Spec2Model ----
(***************************************************************************)
(* A model of the CCBA RAG system: the structural splitter, the ingestion  *)
(* pipeline with its run report, and the generation chain with fallback.   *)
(*                                                                         *)
(* Text is a sequence of one-character strings.  The Vietnamese header     *)
(* words are written in ASCII with the same number of letters ("Dieu",     *)
(* "Chuong"), so every length the code computes is the length here.        *)
(***************************************************************************)
EXTENDS Integers, Sequences, FiniteSets, TLC

VARIABLES
    \* StructuralSplitter.split
    split_text,      \* the text argument
    split_params,    \* [max_chars, min_chars, overlap] of the splitter
    split_pc,        \* "start" | "loop" | "done"
    split_lines,     \* text.split('\n')
    split_i,         \* index of the next line of the for loop
    split_state,     \* chunks, current_chapter, current_article, current_block
    sub_texts,       \* what _recursive_split returned for the last flushed block
    split_result,    \* the returned list of chunks
    \* IngestionPipeline.run
    stages,          \* IngestionPipeline.stages, by stage class
    run_pc,          \* "idle" | "running" | "completed" | "break" | "except"
    stage_i,         \* index of the stage the for loop runs next
    context,         \* PipelineContext: file_path, metadata, stats, errors
    payload,         \* the payload handed from stage to stage
    ran,             \* the indices of the stages run for this file, in order
    vector_db,       \* the ids of the chunks vector_db.insert has stored
    \* IndexingService.index_directory
    index_pc,        \* "caller" | "start" | "loop" | "done" | "raised"
    dir_files,       \* the supported files under the directory
    files,           \* sorted(files)
    file_i,          \* index of the file the for loop processes next
    report,          \* IngestionReport.files
    report_file,     \* what report.save last wrote
    \* RAGChain.query
    chain_pc,        \* "idle" | "start" | "fallback" | "returned" | "raised"
    chain_primary,   \* RAGChain.primary, by provider
    chain_fallback,  \* RAGChain.fallback, by provider, or NoGenerator
    chain_contexts,  \* the contexts the retriever returned
    gen_result,      \* the local gen_result
    generate_calls,  \* the generate calls made, with what each returned
    chain_result,    \* the dictionary query returned
    \* MilvusStore.search and HybridSearchScorer.fuse_results
    search_pc,       \* "idle" | "start" | "searched" | "fused"
    dense_hits,      \* the hits of the dense search, best first
    sparse_hits,     \* the hits of the sparse search, best first
    search_top_k,    \* the top_k argument
    search_exprs,    \* the expr given to the dense and to the sparse search
    search_result,   \* the list search returned
    fused_results,   \* the list fuse_results returned
    \* HybridRetriever.retrieve
    retrieve_pc,     \* "idle" | "start" | "searched" | "done"
    enable_reranker, \* settings.enable_reranker
    reranker,        \* self.reranker
    retrieve_args,   \* filters, top_k, top_n and use_reranker of the call
    candidates,      \* the fused candidates as dictionaries
    rerank_calls,    \* the documents of every call of rerank_with_details
    final_results,   \* the list retrieve returned
    pipeline_stats,  \* the stats retrieve returned
    \* RAGChain.query_with_verification
    verify_pc,       \* "idle" | "call" | "returned"
    judge_calls,     \* what every generate_text call of the judge did
    verified_result, \* the dictionary query_with_verification returned
    \* The constructors of BGEEmbedder and BGEM3Reranker, called by threads
    ctor_pc,         \* where each thread is in its constructor call
    ctor_cls,        \* the class each thread constructs
    ctor_obj,        \* the object each thread's __new__ returned (NoObject before)
    cls_instance,    \* cls._instance of each class (NoObject for None)
    obj_model,       \* _model of every object created (NoModel for None)
    model_loads,     \* the class of every model loaded, in order
    \* QueryService
    svc_enable_cache, \* self.enable_cache
    svc_cache_ttl,    \* self.cache_ttl, in seconds
    svc_cache,        \* self._cache
    svc_cache_times,  \* self._cache_times
    svc_now,          \* time.time(), in seconds
    svc_calls,        \* the number of query calls made
    svc_call,         \* the last query call: its arguments and what it did
    svc_stores        \* the results stored since the last clear_cache

splitVars == <<split_text, split_params, split_pc, split_lines, split_i,
               split_state, sub_texts, split_result>>

runVars == <<stages, run_pc, stage_i, context, payload, ran, vector_db>>

indexVars == <<index_pc, dir_files, files, file_i, report, report_file>>

chainVars == <<chain_pc, chain_primary, chain_fallback, chain_contexts,
               gen_result, generate_calls, chain_result>>

searchVars == <<search_pc, dense_hits, sparse_hits, search_top_k, search_exprs,
                search_result, fused_results>>

retrieveVars == <<retrieve_pc, enable_reranker, reranker, retrieve_args, candidates,
                  rerank_calls, final_results, pipeline_stats>>

verifyVars == <<verify_pc, judge_calls, verified_result>>

ctorVars == <<ctor_pc, ctor_cls, ctor_obj, cls_instance, obj_model, model_loads>>

serviceVars == <<svc_enable_cache, svc_cache_ttl, svc_cache, svc_cache_times,
                 svc_now, svc_calls, svc_call, svc_stores>>

vars == <<splitVars, runVars, indexVars, chainVars, searchVars, retrieveVars,
         verifyVars, ctorVars, serviceVars>>

-----------------------------------------------------------------------------
(* Strings *)

NL == "\n"
SP == " "

Min(a, b) == IF a <= b THEN a ELSE b

\* str.strip() and the regex class \s
Whitespace == {SP, NL}

\* s[:n]
Take(s, n) == SubSeq(s, 1, Min(n, Len(s)))

\* s[-n:] for n > 0
LastChars(s, n) == SubSeq(s, Len(s) - Min(n, Len(s)) + 1, Len(s))

RECURSIVE LStrip(_)
LStrip(s) ==
    IF s # <<>> /\ s[1] \in Whitespace THEN LStrip(Tail(s)) ELSE s

RECURSIVE RStrip(_)
RStrip(s) ==
    IF s # <<>> /\ s[Len(s)] \in Whitespace
    THEN RStrip(SubSeq(s, 1, Len(s) - 1))
    ELSE s

Strip(s) == RStrip(LStrip(s))

StartsWith(s, p) == Len(s) >= Len(p) /\ SubSeq(s, 1, Len(p)) = p

\* str.split(sep) for a non-empty separator
RECURSIVE SplitAcc(_, _, _)
SplitAcc(s, sep, cur) ==
    IF s = <<>> THEN <<cur>>
    ELSE IF StartsWith(s, sep)
         THEN <<cur>> \o SplitAcc(SubSeq(s, Len(sep) + 1, Len(s)), sep, <<>>)
         ELSE SplitAcc(Tail(s), sep, Append(cur, s[1]))

StrSplit(s, sep) == SplitAcc(s, sep, <<>>)

\* sep.join(parts)
RECURSIVE Join(_, _)
Join(parts, sep) ==
    IF parts = <<>> THEN <<>>
    ELSE IF Len(parts) = 1 THEN parts[1]
         ELSE parts[1] \o sep \o Join(Tail(parts), sep)

\* sum(len(p) for p in parts)
RECURSIVE SumLen(_)
SumLen(parts) ==
    IF parts = <<>> THEN 0 ELSE Len(parts[1]) + SumLen(Tail(parts))

\* Whether needle occurs in hay (Python's "needle in hay")
Contains(hay, needle) ==
    \E i \in 1..(Len(hay) - Len(needle) + 1) :
        SubSeq(hay, i, i + Len(needle) - 1) = needle

\* The number of characters of s from position i on that lie in S
RECURSIVE Span(_, _, _)
Span(s, i, S) ==
    IF i <= Len(s) /\ s[i] \in S THEN 1 + Span(s, i + 1, S) ELSE 0

-----------------------------------------------------------------------------
(* core/constants.py: the header patterns, matched with re.IGNORECASE *)

UpperCase == <<"A", "B", "C", "D", "E", "F", "G", "H", "I", "J", "K", "L", "M",
               "N", "O", "P", "Q", "R", "S", "T", "U", "V", "W", "X", "Y", "Z">>
LowerCase == <<"a", "b", "c", "d", "e", "f", "g", "h", "i", "j", "k", "l", "m",
               "n", "o", "p", "q", "r", "s", "t", "u", "v", "w", "x", "y", "z">>

\* str.lower(), one character
Lower(c) ==
    IF \E k \in 1..26 : UpperCase[k] = c
    THEN LowerCase[CHOOSE k \in 1..26 : UpperCase[k] = c]
    ELSE c

ChapterWord == <<"C", "h", "u", "o", "n", "g">>
ArticleWord == <<"D", "i", "e", "u">>
RomanChars  == {"i", "v", "x", "l", "c", "d", "m"}
Digits      == {"0", "1", "2", "3", "4", "5", "6", "7", "8", "9"}
\* [\s:.\-]
SepChars    == Whitespace \cup {":", ".", "-"}

MatchWordCI(s, w) ==
    Len(s) >= Len(w) /\ \A i \in 1..Len(w) : Lower(s[i]) = Lower(w[i])

LowerSeq(s) == [i \in 1..Len(s) |-> Lower(s[i])]

\* word \s+ (number) [\s:.\-]* (.+)?  anchored at the start of the line.
\* ok: the pattern matches; g1, g2: its groups (g2 = <<>> when it is None).
MarkerMatch(line, word, roman) ==
    LET w   == Len(word)
        ws  == Span(line, w + 1, Whitespace)
        p   == w + ws + 1
        nr  == IF roman THEN Span(LowerSeq(line), p, RomanChars) ELSE 0
        n   == IF nr > 0 THEN nr ELSE Span(line, p, Digits)
        q   == p + n
        sep == Span(line, q, SepChars)
    IN  [ok |-> MatchWordCI(line, word) /\ ws > 0 /\ n > 0,
         g1 |-> SubSeq(line, p, q - 1),
         g2 |-> SubSeq(line, q + sep, Len(line))]

CHAPTER_PATTERN(line) == MarkerMatch(line, ChapterWord, TRUE)
ARTICLE_PATTERN(line) == MarkerMatch(line, ArticleWord, FALSE)

\* group(1) plus ": " + group(2).strip() when group(2) matched
MarkerLabel(m) ==
    IF m.g2 # <<>> THEN m.g1 \o <<":", SP>> \o Strip(m.g2) ELSE m.g1

\* None for current_chapter / current_article: every label the patterns
\* produce is non-empty and the code only tests the fields for truth.
NoLabel == <<>>

MAX_LABEL_CHARS == 500

-----------------------------------------------------------------------------
(* ingestion/splitters.py: StructuralSplitter *)

\* _build_context_breadcrumb
BuildContextBreadcrumb(chapter, article) ==
    LET c == IF chapter # NoLabel THEN <<ChapterWord \o <<SP>> \o chapter>> ELSE <<>>
        a == IF article # NoLabel THEN <<ArticleWord \o <<SP>> \o article>> ELSE <<>>
    IN  Join(c \o a, <<SP, ">", SP>>)

\* Chunk(...) as the splitter builds it; id is set at the end of split
NewChunk(text, document_id, chapter, article, clause, level) ==
    [id            |-> <<>>,
     document_id   |-> document_id,
     text          |-> text,
     chapter       |-> chapter,
     article       |-> article,
     clause        |-> clause,
     level         |-> level,
     full_context  |-> BuildContextBreadcrumb(chapter, article)]

\* chunks[-1].text += "\n" + text
MergeIntoLast(chunks, text) ==
    [chunks EXCEPT ![Len(chunks)].text = @ \o <<NL>> \o text]

\* re.split(r'(?<=[.!?])\s+', text)
SentenceEnd == {".", "!", "?"}

RECURSIVE SentAcc(_, _)
SentAcc(s, cur) ==
    IF s = <<>> THEN <<cur>>
    ELSE IF s[1] \in Whitespace /\ cur # <<>> /\ cur[Len(cur)] \in SentenceEnd
         THEN <<cur>> \o SentAcc(LStrip(s), <<>>)
         ELSE SentAcc(Tail(s), Append(cur, s[1]))

SplitSentences(text) == SentAcc(text, <<>>)

\* The overlap seed of the next segment: the last paragraph, cut to its last
\* `overlap` characters when longer; the whole last sentence.
OverlapSeed(current, byParagraph, p) ==
    LET last == current[Len(current)]
    IN  IF byParagraph /\ Len(last) > p.overlap
        THEN LastChars(last, p.overlap)
        ELSE last

\* One iteration of a packing loop of _recursive_split.
\* st = [chunks, current, current_len]
PackStep(st, unit, sep, byParagraph, p) ==
    LET closed ==
            IF st.current_len + Len(unit) > p.max_chars /\ st.current # <<>>
            THEN IF p.overlap > 0
                 THEN [chunks      |-> Append(st.chunks, Join(st.current, sep)),
                       current     |-> <<OverlapSeed(st.current, byParagraph, p)>>,
                       current_len |-> Len(OverlapSeed(st.current, byParagraph, p))]
                 ELSE [chunks      |-> Append(st.chunks, Join(st.current, sep)),
                       current     |-> <<>>,
                       current_len |-> 0]
            ELSE st
    IN  [closed EXCEPT !.current = Append(@, unit),
                       !.current_len = @ + Len(unit)]

RECURSIVE PackLoop(_, _, _, _, _)
PackLoop(st, units, sep, byParagraph, p) ==
    IF units = <<>> THEN st
    ELSE PackLoop(PackStep(st, units[1], sep, byParagraph, p),
                  Tail(units), sep, byParagraph, p)

Pack(units, sep, byParagraph, p) ==
    LET st == PackLoop([chunks |-> <<>>, current |-> <<>>, current_len |-> 0],
                       units, sep, byParagraph, p)
    IN  IF st.current # <<>>
        THEN Append(st.chunks, Join(st.current, sep))
        ELSE st.chunks

\* _recursive_split
RecursiveSplit(text, p) ==
    IF Len(text) <= p.max_chars THEN <<text>>
    ELSE LET paragraphs == StrSplit(text, <<NL, NL>>)
         IN  IF Len(paragraphs) > 1
             THEN Pack(paragraphs, <<NL, NL>>, TRUE, p)
             ELSE Pack(SplitSentences(text), <<SP>>, FALSE, p)

\* str(i + 1) for the clause ordinal
ClauseOrdinal(i) == <<ToString(i)>>
NoClause == <<>>

\* The loop of _create_chunks_from_block over sub_texts, from index i on
RECURSIVE AddSubTexts(_, _, _, _, _, _, _)
AddSubTexts(chunks, texts, i, document_id, chapter, article, p) ==
    IF i > Len(texts) THEN chunks
    ELSE LET sub_text == texts[i]
             next ==
                IF Len(sub_text) < p.min_chars /\ chunks # <<>>
                THEN MergeIntoLast(chunks, sub_text)
                ELSE Append(chunks,
                        NewChunk(sub_text, document_id, chapter, article,
                                 IF Len(texts) > 1 THEN ClauseOrdinal(i)
                                                       ELSE NoClause,
                                 "clause"))
         IN  AddSubTexts(next, texts, i + 1, document_id, chapter, article, p)

\* _create_chunks_from_block dropping a block shorter than min_chars
CreateChunksFromBlock_DropsSmall(text, document_id, chapter, article, existing_chunks, p) ==
    IF Len(text) < p.min_chars THEN existing_chunks
    ELSE IF Len(text) <= p.max_chars
         THEN Append(existing_chunks,
                 NewChunk(text, document_id, chapter, article, NoClause,
                          IF article # NoLabel THEN "article" ELSE "chapter"))
         ELSE AddSubTexts(existing_chunks, RecursiveSplit(text, p), 1,
                          document_id, chapter, article, p)

\* _create_chunks_from_block; existing_chunks = <<>> stands for None as well
\* (chunks = existing_chunks or [])
CreateChunksFromBlock(text, document_id, chapter, article, existing_chunks, p) ==
    LET chunks == existing_chunks
    IN  IF Len(text) <= p.max_chars
        THEN IF Len(text) < p.min_chars /\ chunks # <<>>
             THEN MergeIntoLast(chunks, text)
             ELSE Append(chunks,
                     NewChunk(text, document_id, chapter, article, NoClause,
                              IF article # NoLabel THEN "article" ELSE "chapter"))
        ELSE AddSubTexts(chunks, RecursiveSplit(text, p), 1,
                         document_id, chapter, article, p)

\* The state of split's loop over the lines
SplitLoopInit ==
    [chunks          |-> <<>>,
     current_chapter |-> NoLabel,
     current_article |-> NoLabel,
     current_block   |-> <<>>]

\* "if current_block: chunks.extend(self._create_chunks_from_block(...))":
\* split never passes existing_chunks
FlushBlock(st, document_id, p) ==
    IF st.current_block # <<>>
    THEN [st EXCEPT !.chunks = @ \o CreateChunksFromBlock(
                                       Join(st.current_block, <<NL>>),
                                       document_id, st.current_chapter,
                                       st.current_article, <<>>, p)]
    ELSE st

\* An iteration that sets the label of the header before it flushes
SplitLine_LabelBeforeFlush(st, raw_line, document_id, p) ==
    LET line == Strip(raw_line)
        chapter_match == CHAPTER_PATTERN(line)
        article_match == ARTICLE_PATTERN(line)
    IN  IF line = <<>> THEN st
        ELSE IF chapter_match.ok
             THEN [FlushBlock([st EXCEPT !.current_chapter = MarkerLabel(chapter_match)],
                              document_id, p)
                     EXCEPT !.current_block = <<line>>]
        ELSE IF article_match.ok
             THEN [FlushBlock([st EXCEPT !.current_article = MarkerLabel(article_match)],
                              document_id, p)
                     EXCEPT !.current_block = <<line>>]
        ELSE [st EXCEPT !.current_block = Append(@, line)]

\* One iteration of "for line in lines"
SplitLine(st, raw_line, document_id, p) ==
    LET line == Strip(raw_line)
        chapter_match == CHAPTER_PATTERN(line)
        article_match == ARTICLE_PATTERN(line)
    IN  IF line = <<>> THEN st
        ELSE IF chapter_match.ok
             THEN [FlushBlock(st, document_id, p) EXCEPT
                        !.current_chapter = MarkerLabel(chapter_match),
                        !.current_block = <<line>>]
        ELSE IF article_match.ok
             THEN [FlushBlock(st, document_id, p) EXCEPT
                        !.current_article = MarkerLabel(article_match),
                        !.current_block = <<line>>]
        ELSE [st EXCEPT !.current_block = Append(@, line)]

\* _generate_chunk_id: the md5 prefix of "{document_id}_{index}", taken as
\* the pair it is computed from
GenerateChunkId(document_id, index) == <<document_id, index>>

\* The final flush, then "Add IDs and truncate metadata" (index is 0-based)
SplitFinish(st, document_id, p) ==
    LET chunks == FlushBlock(st, document_id, p).chunks
    IN  [i \in 1..Len(chunks) |->
            [chunks[i] EXCEPT !.id = GenerateChunkId(document_id, i - 1),
                              !.chapter = Take(@, MAX_LABEL_CHARS),
                              !.article = Take(@, MAX_LABEL_CHARS)]]

\* "if not text or not text.strip()"
IsBlankText(text) == text = <<>> \/ Strip(text) = <<>>

RECURSIVE SplitLines(_, _, _, _)
SplitLines(st, lines, document_id, p) ==
    IF lines = <<>> THEN st
    ELSE SplitLines(SplitLine(st, lines[1], document_id, p),
                    Tail(lines), document_id, p)

\* StructuralSplitter.split as one call
Split(text, document_id, p) ==
    IF IsBlankText(text) THEN <<>>
    ELSE SplitFinish(SplitLines(SplitLoopInit, StrSplit(text, <<NL>>),
                                document_id, p),
                     document_id, p)

-----------------------------------------------------------------------------
(* ingestion/pipeline/base.py and stages.py: the pipeline and its stages *)

\* dict.get(key, default)
Get(m, key, default) == IF key \in DOMAIN m THEN m[key] ELSE default

\* dict.update(new)
Update(m, new) == new @@ m

EmptyDict == <<>>

\* PipelineContext(file_path=file_path)
PipelineContext(file_path) ==
    [file_path |-> file_path,
     metadata  |-> EmptyDict,
     stats     |-> EmptyDict,
     errors    |-> <<>>]

\* Payloads, by what they are
None            == [kind |-> "none"]
PathPayload(f)  == [kind |-> "path", file |-> f]
DocData(text)   == [kind |-> "doc", text |-> text,
                    total_pages |-> 1, total_chars |-> Len(text)]
ChunkList(cs)   == [kind |-> "chunks", chunks |-> cs]
Object          == [kind |-> "obj"]

\* What one stage's run did: it returned a payload or raised, and left the
\* context and the vector store as given
Returned(ctx, pl)      == [raised |-> FALSE, error |-> "", context |-> ctx,
                           payload |-> pl, inserted |-> <<>>]
Raised(ctx, message)   == [raised |-> TRUE, error |-> message, context |-> ctx,
                           payload |-> None, inserted |-> <<>>]

\* A stage handed a payload that is not what it indexes or iterates
TypeError == "TypeError"

\* LoadStage.run; parse is what DocumentParser.parse does for the file
LoadStageRun(ctx, pl, parse) ==
    IF pl.kind # "path" THEN Raised(ctx, TypeError)
    ELSE IF ~parse.ok THEN Raised(ctx, parse.error)
    ELSE Returned([ctx EXCEPT !.stats =
                        Update(@, [pages |-> parse.doc.total_pages,
                                   total_chars |-> parse.doc.total_chars])],
                  parse.doc)

\* ingestion/utils.py generate_document_id: the normalized code, or the md5
\* prefix of the path, taken as the path it is computed from
NoCode == "none"
GenerateDocumentId(file_path, document_code) ==
    IF document_code # NoCode THEN <<"code", document_code>>
                              ELSE <<"path", file_path>>

\* MetadataStage.run; document_code is what the extractor finds
MetadataStageRun(ctx, pl, document_code) ==
    IF pl.kind # "doc" THEN Raised(ctx, TypeError)
    ELSE Returned([ctx EXCEPT !.metadata =
                        Update(Update(@, [document_code    |-> document_code,
                                          document_type    |-> "original",
                                          amendment_number |-> NoCode,
                                          amends_document  |-> NoCode]),
                               [document_id |->
                                    GenerateDocumentId(ctx.file_path, document_code)])],
                  pl)

\* IndexingService.__init__: StructuralSplitter(max_chars=1024, overlap=200)
IndexingParams == [max_chars |-> 1024, min_chars |-> 100, overlap |-> 200]

NoDocumentId == <<"none">>

\* Chunk.dense_vector and Chunk.sparse_vector before the Embed stage
NoVector == <<"none">>

\* The vectors the embedding model computes for a text
DenseOf(text) == <<"dense", text>>

SparseOf(text) == <<"sparse", text>>

\* BGEEmbedder.encode_all: the texts are encoded batch by batch and the
\* batches concatenated, which gives one dense and one sparse vector for each
\* text, in the order of the texts
EncodeAll(texts) ==
    [dense  |-> [i \in 1..Len(texts) |-> DenseOf(texts[i])],
     sparse |-> [i \in 1..Len(texts) |-> SparseOf(texts[i])]]

\* ChunkStage.run
ChunkStageRun(ctx, pl) ==
    IF pl.kind # "doc" THEN Raised(ctx, TypeError)
    ELSE LET doc_id == Get(ctx.metadata, "document_id", NoDocumentId)
             chunks == Split(pl.text, doc_id, IndexingParams)
             code   == Get(ctx.metadata, "document_code", NoCode)
         IN  IF chunks = <<>> THEN Returned(ctx, None)
             ELSE Returned(
                    [ctx EXCEPT !.stats = Update(@, [chunks_created |-> Len(chunks)])],
                    ChunkList([i \in 1..Len(chunks) |->
                        [id |-> chunks[i].id, text |-> chunks[i].text,
                         document_code |-> code, embedded |-> FALSE,
                         dense_vector |-> NoVector, sparse_vector |-> NoVector]]))

\* EmbedStage.run; encode_ok is whether embedder.encode_all returns
EmbedStageRun(ctx, pl, encode_ok) ==
    IF pl.kind # "chunks" THEN Raised(ctx, TypeError)
    ELSE IF ~encode_ok THEN Raised(ctx, "encode failed")
    ELSE LET texts   == [i \in 1..Len(pl.chunks) |-> pl.chunks[i].text]
             encoded == EncodeAll(texts)
             zipped  == Min(Len(pl.chunks), Min(Len(encoded.dense), Len(encoded.sparse)))
         IN  Returned(ctx, ChunkList([i \in 1..Len(pl.chunks) |->
                 IF i <= zipped
                 THEN [pl.chunks[i] EXCEPT !.embedded = TRUE,
                                           !.dense_vector = encoded.dense[i],
                                           !.sparse_vector = encoded.sparse[i]]
                 ELSE pl.chunks[i]]))

\* VectorStoreStage.run; insert_ok is whether vector_db.insert returns
VectorStoreStageRun(ctx, pl, insert_ok) ==
    IF pl.kind # "chunks" THEN Raised(ctx, TypeError)
    ELSE IF ~insert_ok THEN Raised(ctx, "insert failed")
    ELSE [Returned(ctx, pl) EXCEPT
            !.inserted = [i \in 1..Len(pl.chunks) |-> pl.chunks[i].id]]

\* chunk_chars / total_chars * 100, kept as the fraction
Coverage(chunk_chars, stats) ==
    IF "total_chars" \in DOMAIN stats /\ stats.total_chars > 0
    THEN <<chunk_chars * 100, stats.total_chars>>
    ELSE <<0, 1>>

\* VerifyStage.run
VerifyStageRun(ctx, pl) ==
    IF pl.kind # "chunks" THEN Raised(ctx, TypeError)
    ELSE LET texts == [i \in 1..Len(pl.chunks) |-> pl.chunks[i].text]
             ctx1  == [ctx EXCEPT !.stats =
                          Update(@, [coverage |-> Coverage(SumLen(texts), ctx.stats),
                                     chunks_indexed |-> Len(pl.chunks)])]
         IN  IF Len(pl.chunks) = 0
             THEN Returned([ctx1 EXCEPT !.errors =
                               Append(@, "Verification Failed: 0 chunks were indexed")],
                           pl)
             ELSE Returned(ctx1, pl)

\* The key stage i of a pipeline writes under
CustomKey(i) == "stage" \o ToString(i)

\* PipelineStage.run of any other stage: it may write to the context, and it
\* returns an object, returns None or raises.
\* does = [writes: BOOLEAN, outcome: "object" | "none" | "raise", error]
CustomStageRun(ctx, pl, does, i) ==
    LET ctx1 == IF does.writes
                THEN [ctx EXCEPT !.metadata = Update(@, CustomKey(i) :> i),
                                 !.stats = Update(@, CustomKey(i) :> i)]
                ELSE ctx
    IN  CASE does.outcome = "object" -> Returned(ctx1, Object)
          [] does.outcome = "none"   -> Returned(ctx1, None)
          [] OTHER                   -> Raised(ctx1, does.error)

\* What IngestionPipeline.run does with the stage's return or exception
\* (lines 48-61): res is the run of stage i of n, pl the payload it was given
AfterStage_NoBreak(res, pl, i, n) ==
    IF res.raised
    THEN [context |-> [res.context EXCEPT !.errors = Append(@, res.error)],
          payload |-> pl, run_pc |-> "except", stage_i |-> i]
    ELSE IF i = n
    THEN [context |-> res.context, payload |-> res.payload,
          run_pc |-> "completed", stage_i |-> i]
    ELSE [context |-> res.context, payload |-> res.payload,
          run_pc |-> "running", stage_i |-> i + 1]

AfterStage_Reraises(res, pl, i, n) ==
    IF res.raised
    THEN [context |-> res.context,
          payload |-> pl, run_pc |-> "propagated", stage_i |-> i]
    ELSE IF res.payload.kind = "none"
    THEN [context |-> res.context, payload |-> res.payload,
          run_pc |-> "break", stage_i |-> i]
    ELSE IF i = n
    THEN [context |-> res.context, payload |-> res.payload,
          run_pc |-> "completed", stage_i |-> i]
    ELSE [context |-> res.context, payload |-> res.payload,
          run_pc |-> "running", stage_i |-> i + 1]

AfterStage(res, pl, i, n) ==
    IF res.raised
    THEN [context |-> [res.context EXCEPT !.errors = Append(@, res.error)],
          payload |-> pl, run_pc |-> "except", stage_i |-> i]
    ELSE IF res.payload.kind = "none"
    THEN [context |-> res.context, payload |-> res.payload,
          run_pc |-> "break", stage_i |-> i]
    ELSE IF i = n
    THEN [context |-> res.context, payload |-> res.payload,
          run_pc |-> "completed", stage_i |-> i]
    ELSE [context |-> res.context, payload |-> res.payload,
          run_pc |-> "running", stage_i |-> i + 1]

-----------------------------------------------------------------------------
(* ingestion/report.py and indexing_service.py *)

\* A path is 10 * directory + name: 11 and 21 are files of one name in two
\* directories, and paths sort by directory, then name.  Path(file_path).name:
PathName(file_path) == file_path % 10

\* add_result reporting every file as a success
AddResult_MarksFailureSuccess(ctx) ==
    [file_name      |-> PathName(ctx.file_path),
     status         |-> "success",
     chunks_indexed |-> Get(ctx.stats, "chunks_indexed", 0),
     coverage       |-> Get(ctx.stats, "coverage", <<0, 1>>),
     errors         |-> ctx.errors,
     stats          |-> ctx.stats]

\* IngestionReport.add_result: the FileReport of a context
AddResult(ctx) ==
    LET status0 == IF ctx.errors = <<>> THEN "success" ELSE "failed"
        status  == IF ctx.metadata = EmptyDict /\ ctx.errors = <<>>
                   THEN "skipped" ELSE status0
    IN  [file_name      |-> PathName(ctx.file_path),
         status         |-> status,
         chunks_indexed |-> Get(ctx.stats, "chunks_indexed", 0),
         coverage       |-> Get(ctx.stats, "coverage", <<0, 1>>),
         errors         |-> ctx.errors,
         stats          |-> ctx.stats]

\* sum(1 for f in self.files if f.status == status)
CountStatus(fs, status) ==
    Cardinality({ k \in 1..Len(fs) : fs[k].status = status })

RECURSIVE TotalChunks(_)
TotalChunks(fs) ==
    IF fs = <<>> THEN 0 ELSE fs[1].chunks_indexed + TotalChunks(Tail(fs))

\* IngestionReport.save: the summary and the details written
Save(fs) ==
    [summary |-> [total_files  |-> Len(fs),
                  success      |-> CountStatus(fs, "success"),
                  failed       |-> CountStatus(fs, "failed"),
                  total_chunks |-> TotalChunks(fs)],
     details |-> [k \in 1..Len(fs) |->
                    [file |-> fs[k].file_name, status |-> fs[k].status,
                     chunks |-> fs[k].chunks_indexed,
                     coverage |-> fs[k].coverage, errors |-> fs[k].errors]]]

NotSaved == [summary |-> [total_files |-> 0, success |-> 0, failed |-> 0,
                          total_chunks |-> 0],
             details |-> <<>>]

\* sorted(files): insertion of each element at its place
RECURSIVE Insert(_, _)
Insert(sorted, x) ==
    IF sorted = <<>> THEN <<x>>
    ELSE IF x <= sorted[1] THEN <<x>> \o sorted
         ELSE <<sorted[1]>> \o Insert(Tail(sorted), x)

\* The files taken in the order rglob yields them
Sorted_KeepsOrder(seq) == seq

RECURSIVE Sorted(_)
Sorted(seq) ==
    IF seq = <<>> THEN <<>>
    ELSE Insert(Sorted(SubSeq(seq, 1, Len(seq) - 1)), seq[Len(seq)])

\* The orders in which rglob may yield the files of a directory
Orders(S) ==
    { f \in [1..Cardinality(S) -> S] :
        \A a, b \in 1..Cardinality(S) : a # b => f[a] # f[b] }

-----------------------------------------------------------------------------
(* generation/generators: generate and _classify_error of each provider *)

\* Python's None, and a value that is not None
NoValue == <<>>
Some(v) == <<v>>

\* bool(x) of a string that may be None
Truthy(opt) == opt # NoValue /\ opt[1] # ""

\* The substrings _classify_error looks for
Kw_quota == <<"q", "u", "o", "t", "a">>
Kw_rate == <<"r", "a", "t", "e">>
Kw_exhausted == <<"e", "x", "h", "a", "u", "s", "t", "e", "d">>
Kw_limit == <<"l", "i", "m", "i", "t">>
Kw_unavailable == <<"u", "n", "a", "v", "a", "i", "l", "a", "b", "l", "e">>
Kw_timeout == <<"t", "i", "m", "e", "o", "u", "t">>
Kw_invalid == <<"i", "n", "v", "a", "l", "i", "d">>
Kw_api_key == <<"a", "p", "i", "_", "k", "e", "y">>
Kw_authentication == <<"a", "u", "t", "h", "e", "n", "t", "i", "c", "a", "t", "i", "o", "n">>
Kw_insufficient == <<"i", "n", "s", "u", "f", "f", "i", "c", "i", "e", "n", "t">>
Kw_402 == <<"4", "0", "2">>

\* GeminiGenerator._classify_error
ClassifyErrorGemini(error) ==
    LET error_str == LowerSeq(error)
    IN  IF \/ Contains(error_str, Kw_quota)
           \/ Contains(error_str, Kw_rate)
           \/ Contains(error_str, Kw_exhausted)
        THEN "RATE_LIMIT_ERROR"
        ELSE IF Contains(error_str, Kw_unavailable) \/ Contains(error_str, Kw_timeout)
        THEN "API_UNAVAILABLE"
        ELSE IF Contains(error_str, Kw_invalid) \/ Contains(error_str, Kw_api_key)
        THEN "AUTH_ERROR"
        ELSE "UNKNOWN_ERROR"

\* GroqGenerator._classify_error
ClassifyErrorGroq(error) ==
    LET error_str == LowerSeq(error)
    IN  IF Contains(error_str, Kw_rate) \/ Contains(error_str, Kw_limit)
        THEN "RATE_LIMIT_ERROR"
        ELSE IF Contains(error_str, Kw_unavailable) \/ Contains(error_str, Kw_timeout)
        THEN "API_UNAVAILABLE"
        ELSE IF Contains(error_str, Kw_authentication) \/ Contains(error_str, Kw_api_key)
        THEN "AUTH_ERROR"
        ELSE "UNKNOWN_ERROR"

\* DeepSeekGenerator._classify_error
ClassifyErrorDeepSeek(error) ==
    LET error_str == LowerSeq(error)
    IN  IF Contains(error_str, Kw_insufficient) \/ Contains(error_str, Kw_402)
        THEN "INSUFFICIENT_BALANCE"
        ELSE IF Contains(error_str, Kw_rate) \/ Contains(error_str, Kw_limit)
        THEN "RATE_LIMIT_ERROR"
        ELSE IF Contains(error_str, Kw_unavailable) \/ Contains(error_str, Kw_timeout)
        THEN "API_UNAVAILABLE"
        ELSE "UNKNOWN_ERROR"

Providers == {"gemini", "groq", "deepseek"}

ClassifyError(provider, error) ==
    CASE provider = "gemini" -> ClassifyErrorGemini(error)
      [] provider = "groq" -> ClassifyErrorGroq(error)
      [] provider = "deepseek" -> ClassifyErrorDeepSeek(error)

\* settings.gemini_model, groq_model, deepseek_model
ModelName(provider) ==
    CASE provider = "gemini" -> "gemini-2.0-flash"
      [] provider = "groq" -> "llama-3.3-70b-versatile"
      [] provider = "deepseek" -> "deepseek-chat"

\* prompt_manager.build_rag_prompt
BuildRagPrompt(query, contexts) == [query |-> query, contexts |-> contexts]

\* generate without its try: the exception of the model call leaves generate
Generate_NoTry(provider, query, contexts, call) ==
    LET base_result == [answer |-> NoValue,
                        contexts_used |-> contexts,
                        prompt |-> Some(BuildRagPrompt(query, contexts)),
                        model |-> Some(ModelName(provider)),
                        error |-> NoValue,
                        error_type |-> NoValue]
    IN  IF call.raises
        THEN [raised |-> TRUE, result |-> base_result]
        ELSE [raised |-> FALSE, result |-> [base_result EXCEPT !.answer = call.text]]

\* generate of the three generators: the model call either returns the
\* response's text or raises; every Exception is caught and classified
Generate(provider, query, contexts, call) ==
    LET base_result == [answer |-> NoValue,
                        contexts_used |-> contexts,
                        prompt |-> Some(BuildRagPrompt(query, contexts)),
                        model |-> Some(ModelName(provider)),
                        error |-> NoValue,
                        error_type |-> NoValue]
    IN  IF call.raises
        THEN [raised |-> FALSE,
              result |-> [base_result EXCEPT
                             !.error = Some(call.error),
                             !.error_type = Some(ClassifyError(provider, call.error))]]
        ELSE [raised |-> FALSE,
              result |-> [base_result EXCEPT !.answer = call.text]]

-----------------------------------------------------------------------------
(* generation/chain.py: RAGChain *)

NoGenerator == "none"

NoInfoAnswer == "Khong tim thay thong tin lien quan trong co so du lieu."
DefaultAnswer == "Khong the tao cau tra loi."

RetrievalStats == {"retrieval_ms"}

\* query, lines 85-91
NoInfoResult ==
    [answer |-> Some(NoInfoAnswer),
     contexts |-> <<>>,
     stats |-> RetrievalStats,
     model |-> NoValue,
     used_fallback |-> FALSE]

\* _needs_fallback falling back on every error
NeedsFallback_AnyError(g) ==
    IF Truthy(Get(g, "answer", NoValue))
    THEN FALSE
    ELSE Get(g, "error_type", Some("")) # NoValue

\* _needs_fallback
NeedsFallback(g) ==
    IF Truthy(Get(g, "answer", NoValue))
    THEN FALSE
    ELSE Get(g, "error_type", Some("")) \in
            {Some("RATE_LIMIT_ERROR"), Some("API_UNAVAILABLE"), Some("UNKNOWN_ERROR")}

\* The result dictionary with used_fallback left at its initial False
BuildResult_UsedFallbackNeverSet(g, contexts, used_fallback) ==
    [answer |-> Get(g, "answer", Some(DefaultAnswer)),
     contexts |-> contexts,
     stats |-> RetrievalStats \cup {"generation_ms", "total_ms"},
     model |-> Get(g, "model", NoValue),
     prompt |-> Get(g, "prompt", NoValue),
     used_fallback |-> FALSE,
     error |-> Get(g, "error", NoValue),
     error_type |-> Get(g, "error_type", NoValue)]

\* query, lines 119-132
BuildResult(g, contexts, used_fallback) ==
    [answer |-> Get(g, "answer", Some(DefaultAnswer)),
     contexts |-> contexts,
     stats |-> RetrievalStats \cup {"generation_ms", "total_ms"},
     model |-> Get(g, "model", NoValue),
     prompt |-> Get(g, "prompt", NoValue),
     used_fallback |-> used_fallback,
     error |-> Get(g, "error", NoValue),
     error_type |-> Get(g, "error_type", NoValue)]

-----------------------------------------------------------------------------
(* generation/chain.py: RAGChain.query_with_verification *)

\* str.upper(), one character
Upper(c) ==
    IF \E k \in 1..26 : LowerCase[k] = c
    THEN UpperCase[CHOOSE k \in 1..26 : LowerCase[k] = c]
    ELSE c

UpperSeq(s) == [i \in 1..Len(s) |-> Upper(s[i])]

Word_NOT_SUPPORTED == <<"N", "O", "T", "_", "S", "U", "P", "P", "O", "R", "T", "E", "D">>

Word_SUPPORTED == <<"S", "U", "P", "P", "O", "R", "T", "E", "D">>

\* _verify_faithfulness with the test for SUPPORTED made first
VerifyFaithfulness_SupportedFirst(judge) ==
    IF judge.raises \/ judge.text = NoValue
    THEN [verdict |-> "ERROR", score |-> 0]
    ELSE IF Contains(UpperSeq(judge.text[1]), Word_SUPPORTED)
    THEN [verdict |-> "SUPPORTED", score |-> 10]
    ELSE IF Contains(UpperSeq(judge.text[1]), Word_NOT_SUPPORTED)
    THEN [verdict |-> "NOT_SUPPORTED", score |-> 0]
    ELSE [verdict |-> "UNKNOWN", score |-> 5]

\* _verify_faithfulness, given what primary.generate_text did; scores are in
\* tenths. A response of None has no upper(): the AttributeError is raised
\* inside the try and caught like an exception of the call
VerifyFaithfulness(judge) ==
    IF judge.raises \/ judge.text = NoValue
    THEN [verdict |-> "ERROR", score |-> 0]
    ELSE IF Contains(UpperSeq(judge.text[1]), Word_NOT_SUPPORTED)
    THEN [verdict |-> "NOT_SUPPORTED", score |-> 0]
    ELSE IF Contains(UpperSeq(judge.text[1]), Word_SUPPORTED)
    THEN [verdict |-> "SUPPORTED", score |-> 10]
    ELSE [verdict |-> "UNKNOWN", score |-> 5]

\* query_with_verification, line 155: the judge is asked
RunsJudge(result) == Truthy(Get(result, "answer", NoValue)) /\ result.contexts # <<>>

\* The annotation with an unsupported answer withheld
Annotate_WithholdsUnsupported(result, v) ==
    IF v.verdict = "NOT_SUPPORTED"
    THEN Update(result, [answer |-> NoValue,
                         faithfulness_verdict |-> v.verdict,
                         faithfulness_score |-> v.score])
    ELSE Update(result, [faithfulness_verdict |-> v.verdict,
                         faithfulness_score |-> v.score])

\* query_with_verification, lines 160-161
Annotate(result, v) ==
    Update(result, [faithfulness_verdict |-> v.verdict,
                    faithfulness_score |-> v.score])

-----------------------------------------------------------------------------
(* retrieval/vectorstores/milvus.py, MilvusStore.search, and                *)
(* retrieval/embedder.py, HybridSearchScorer: reciprocal rank fusion         *)

\* The longest hit list a search returns
MaxHits == 3

\* k, the RRF constant
RRF_K == 60

RECURSIVE ProductTo(_, _)
ProductTo(a, b) == IF a > b THEN 1 ELSE a * ProductTo(a + 1, b)

\* A score s is held as the integer s * ScoreScale; ScoreScale is a multiple
\* of every k + rank + 1 that occurs, so every sum of contributions is exact
ScoreScale == ProductTo(RRF_K + 1, RRF_K + MaxHits)

\* 1 / (rank + 1): the contribution without the constant k
RrfTerm_WithoutK(rank) == ScoreScale \div (rank + 1)

\* 1 / (k + rank + 2): the contribution with the rank counted from one
RrfTerm_RankFromOne(rank) == ScoreScale \div (RRF_K + rank + 2)

\* 1 / (k + rank + 1), rank as enumerate gives it (the best hit has rank 0)
RrfTerm(rank) == ScoreScale \div (RRF_K + rank + 1)

\* A dictionary that keeps the order in which its keys were inserted
EmptyOrdered == [keys |-> <<>>, val |-> <<>>]

HasKey(d, key) == \E i \in 1..Len(d.keys) : d.keys[i] = key

ValueOf(d, key) == d.val[CHOOSE i \in 1..Len(d.keys) : d.keys[i] = key]

SetKey(d, key, value) ==
    IF HasKey(d, key)
    THEN [d EXCEPT !.val =
             [i \in 1..Len(d.keys) |-> IF d.keys[i] = key THEN value ELSE d.val[i]]]
    ELSE [keys |-> Append(d.keys, key), val |-> Append(d.val, value)]

\* A hit of a search: the primary key and the stored fields of the entity
Hit(id, text) == [id |-> id, entity |-> [text |-> text]]

\* Chunk(id=doc_id, text=hit.entity.get('text', ''), ...)
ChunkOfHit(doc_id, hit) == [id |-> doc_id, text |-> hit.entity.text]

\* One iteration of process_hits with the chunk taken from every hit
ProcessHit_LastHitWins(acc, rank, hit) ==
    LET doc_id == ToString(hit.id)
        before == IF HasKey(acc.rrf_scores, doc_id)
                  THEN ValueOf(acc.rrf_scores, doc_id) ELSE 0
    IN  [rrf_scores |-> SetKey(acc.rrf_scores, doc_id, before + RrfTerm(rank)),
         chunks_map |-> SetKey(acc.chunks_map, doc_id, ChunkOfHit(doc_id, hit))]

\* One iteration of process_hits
ProcessHit(acc, rank, hit) ==
    LET doc_id == ToString(hit.id)
        before == IF HasKey(acc.rrf_scores, doc_id)
                  THEN ValueOf(acc.rrf_scores, doc_id) ELSE 0
    IN  [rrf_scores |-> SetKey(acc.rrf_scores, doc_id, before + RrfTerm(rank)),
         chunks_map |-> IF HasKey(acc.chunks_map, doc_id)
                        THEN acc.chunks_map
                        ELSE SetKey(acc.chunks_map, doc_id, ChunkOfHit(doc_id, hit))]

RECURSIVE ProcessHitsFrom(_, _, _)
ProcessHitsFrom(acc, hits, n) ==
    IF n > Len(hits) THEN acc
    ELSE ProcessHitsFrom(ProcessHit(acc, n - 1, hits[n]), hits, n + 1)

ProcessHits(acc, hits) == ProcessHitsFrom(acc, hits, 1)

\* The place of x in a list kept in descending order of key, before its equals
RECURSIVE InsertDesc_BeforeEquals(_, _, _)
InsertDesc_BeforeEquals(sorted, x, key) ==
    IF sorted = <<>> THEN <<x>>
    ELSE IF key[x] >= key[sorted[1]] THEN <<x>> \o sorted
    ELSE <<sorted[1]>> \o InsertDesc_BeforeEquals(Tail(sorted), x, key)

\* The place of x in a list kept in descending order of key, after its equals
RECURSIVE InsertDesc(_, _, _)
InsertDesc(sorted, x, key) ==
    IF sorted = <<>> THEN <<x>>
    ELSE IF key[x] > key[sorted[1]] THEN <<x>> \o sorted
    ELSE <<sorted[1]>> \o InsertDesc(Tail(sorted), x, key)

\* sorted(items, key=..., reverse=True): descending, equal keys keep their order
RECURSIVE SortedDescFrom(_, _, _, _)
SortedDescFrom(done, items, key, n) ==
    IF n > Len(items) THEN done
    ELSE SortedDescFrom(InsertDesc(done, items[n], key), items, key, n + 1)

SortedDesc(items, key) == SortedDescFrom(<<>>, items, key, 1)

ScoreByKey(d) == [key \in { d.keys[i] : i \in 1..Len(d.keys) } |-> ValueOf(d, key)]

RetrievalResult(chunk, score, rank) == [chunk |-> chunk, score |-> score, rank |-> rank]

\* The fusion of search, from the two hit lists to the returned list
Fuse(dense_results, sparse_results) ==
    ProcessHits(ProcessHits([rrf_scores |-> EmptyOrdered, chunks_map |-> EmptyOrdered],
                            dense_results),
                sparse_results)

\* search with the sparse hits read only when there are no dense hits
Search_SparseOnlyWithoutDense(dense_results, sparse_results, top_k) ==
    LET acc        == IF dense_results # <<>>
                      THEN Fuse(dense_results, <<>>) ELSE Fuse(<<>>, sparse_results)
        sorted_ids == SortedDesc(acc.rrf_scores.keys, ScoreByKey(acc.rrf_scores))
    IN  [i \in 1..Min(top_k, Len(sorted_ids)) |->
            RetrievalResult(ValueOf(acc.chunks_map, sorted_ids[i]),
                            ValueOf(acc.rrf_scores, sorted_ids[i]), i)]

\* search, after the two collection.search calls returned
Search(dense_results, sparse_results, top_k) ==
    LET acc        == Fuse(dense_results, sparse_results)
        sorted_ids == SortedDesc(acc.rrf_scores.keys, ScoreByKey(acc.rrf_scores))
    IN  [i \in 1..Min(top_k, Len(sorted_ids)) |->
            RetrievalResult(ValueOf(acc.chunks_map, sorted_ids[i]),
                            ValueOf(acc.rrf_scores, sorted_ids[i]), i)]

\* A document given to fuse_results: a dictionary with its id under id_key
DocOfHit(hit) == [id |-> ToString(hit.id), text |-> hit.entity.text]

DocsOfHits(hits) == [i \in 1..Len(hits) |-> DocOfHit(hits[i])]

\* One iteration of the loops of fuse_results
FuseDoc(acc, rank, doc) ==
    LET doc_id == doc.id
        before == IF HasKey(acc.rrf_scores, doc_id)
                  THEN ValueOf(acc.rrf_scores, doc_id) ELSE 0
    IN  [rrf_scores |-> SetKey(acc.rrf_scores, doc_id, before + RrfTerm(rank)),
         doc_map    |-> IF HasKey(acc.doc_map, doc_id)
                        THEN acc.doc_map
                        ELSE SetKey(acc.doc_map, doc_id, doc)]

RECURSIVE FuseDocsFrom(_, _, _)
FuseDocsFrom(acc, docs, n) ==
    IF n > Len(docs) THEN acc
    ELSE FuseDocsFrom(FuseDoc(acc, n - 1, docs[n]), docs, n + 1)

\* HybridSearchScorer.fuse_results
FuseResults(dense_results, sparse_results) ==
    LET acc    == FuseDocsFrom(FuseDocsFrom([rrf_scores |-> EmptyOrdered,
                                             doc_map |-> EmptyOrdered],
                                            dense_results, 1),
                               sparse_results, 1)
        ids    == SortedDesc(acc.rrf_scores.keys, ScoreByKey(acc.rrf_scores))
    IN  [i \in 1..Len(ids) |->
            [id |-> ids[i],
             text |-> ValueOf(acc.doc_map, ids[i]).text,
             rrf_score |-> ValueOf(acc.rrf_scores, ids[i])]]

\* No filter expression, and no result of a search not yet made
NoExpr == <<>>

-----------------------------------------------------------------------------
(* retrieval/retriever.py, HybridRetriever, retrieval/rerankers.py and the  *)
(* construction of the retriever in core/rag_system.py                      *)

\* The value of a filter field, with its Python type
ListValue(items) == [type |-> "list", items |-> items]

StrValue(s) == [type |-> "str", items |-> <<s>>]

IntValue(n) == [type |-> "int", items |-> <<ToString(n)>>]

Quote == "\""

\* sep.join(parts)
RECURSIVE JoinStrings(_, _)
JoinStrings(parts, sep) ==
    IF parts = <<>> THEN ""
    ELSE IF Len(parts) = 1 THEN parts[1]
    ELSE parts[1] \o sep \o JoinStrings(Tail(parts), sep)

\* The conditions one field of filters adds to the list conditions
FieldConditions(key, value) ==
    IF value.type = "list"
    THEN << key \o " in ["
               \o JoinStrings([i \in 1..Len(value.items) |->
                                  Quote \o value.items[i] \o Quote], ",")
               \o "]" >>
    ELSE IF value.type = "str"
    THEN << key \o " == " \o Quote \o value.items[1] \o Quote >>
    ELSE <<>>

RECURSIVE Conditions(_)
Conditions(items) ==
    IF items = <<>> THEN <<>>
    ELSE FieldConditions(items[1][1], items[1][2]) \o Conditions(Tail(items))

\* _build_filter_expr; filters is NoValue or Some(the fields in order)
BuildFilterExpr(filters) ==
    IF filters = NoValue \/ filters[1] = <<>> THEN NoExpr
    ELSE IF Conditions(filters[1]) # <<>>
    THEN Some(JoinStrings(Conditions(filters[1]), " and "))
    ELSE NoExpr

\* The dictionary retrieve makes of one RetrievalResult
CandidateOf(res) == [text |-> res.chunk.text, retrieval_score |-> res.score]

Candidates(retrieval_results) ==
    [i \in 1..Len(retrieval_results) |-> CandidateOf(retrieval_results[i])]

WithRerankScore(doc, score) ==
    [text |-> doc.text, retrieval_score |-> doc.retrieval_score, rerank_score |-> score]

\* should_rerank
ShouldRerank(use_reranker, enabled) ==
    IF use_reranker # NoValue THEN use_reranker[1] ELSE enabled

NoReranker == "None"

\* The branch without reranking, returning all the candidates
SkipRerank_NoTruncation(docs, top_n) ==
    [i \in 1..Len(docs) |-> WithRerankScore(docs[i], docs[i].retrieval_score)]

\* The branch without reranking: candidates[:top_n] with the fusion score
SkipRerank(docs, top_n) ==
    [i \in 1..Min(top_n, Len(docs)) |->
        WithRerankScore(docs[i], docs[i].retrieval_score)]

\* BGEM3Reranker.rerank with the scores the model computed
Rerank(documents, scores, top_n) ==
    IF documents = <<>> THEN <<>>
    ELSE LET scored == [i \in 1..Len(documents) |->
                           WithRerankScore(documents[i], scores[i])]
             order  == SortedDesc([i \in 1..Len(scored) |-> i],
                                  [i \in 1..Len(scored) |-> scored[i].rerank_score])
         IN  [i \in 1..Min(top_n, Len(scored)) |-> scored[order[i]]]

\* RAGSystem.reranker: no reranker is built unless settings.enable_reranker
RAGSystemReranker(enabled) == IF enabled THEN "BGEM3Reranker" ELSE NoReranker

NoStats == [candidates_count |-> 0, reranking_ms |-> 0, final_count |-> 0]

-----------------------------------------------------------------------------
(* generation/query_service.py: QueryService *)

\* repr(kwargs): kwargs is the sequence of the keyword arguments in the
\* order of the call, each [name, value] with the repr of the value
ReprDict(kwargs) ==
    "{" \o JoinStrings([i \in 1..Len(kwargs) |->
                           "'" \o kwargs[i].name \o "': " \o kwargs[i].value],
                       ", ") \o "}"

\* _cache_key: the md5 of f"{question}_{kwargs}", taken as the string it is
\* computed from
CacheKey(question, kwargs) == question \o "_" \o ReprDict(kwargs)

\* del d[key]
Without(d, key) == [k \in DOMAIN d \ {key} |-> d[k]]

\* d[key] = value
WithKey(d, key, value) == [k \in DOMAIN d \cup {key} |-> IF k = key THEN value ELSE d[k]]

\* _get_cached without the expiry of entries
GetCached_NeverExpires(cache, times, key, now, cache_ttl) ==
    IF key \notin DOMAIN cache
    THEN [value |-> NoValue, cache |-> cache, times |-> times]
    ELSE [value |-> Some(cache[key]), cache |-> cache, times |-> times]

\* _get_cached: the value returned and the cache it leaves
GetCached(cache, times, key, now, cache_ttl) ==
    IF key \notin DOMAIN cache
    THEN [value |-> NoValue, cache |-> cache, times |-> times]
    ELSE LET cached_time == Get(times, key, 0)
         IN  IF now - cached_time > cache_ttl
             THEN [value |-> NoValue,
                   cache |-> Without(cache, key),
                   times |-> Without(times, key)]
             ELSE [value |-> Some(cache[key]), cache |-> cache, times |-> times]

\* _set_cached
SetCached(cache, times, key, value, now) ==
    [cache |-> WithKey(cache, key, value), times |-> WithKey(times, key, now)]

\* The local cache_key of query when no assignment to it has run
Unbound == <<>>

UnboundLocalError == "cannot access local variable 'cache_key'"

\* QueryService.query. chain is what chain.query does when called: it
\* raises, or returns a result; now is the time of the lookup, later the
\* time when chain.query has returned. The outcome says whether query
\* returned or raised, how often it called chain.query, and the cache it left.
Query(enable_cache, cache_ttl, cache, times, question, kwargs, use_cache, chain, now, later) ==
    LET looks_up  == use_cache /\ enable_cache
        cache_key == IF looks_up THEN Some(CacheKey(question, kwargs)) ELSE Unbound
        got       == IF looks_up
                     THEN GetCached(cache, times, cache_key[1], now, cache_ttl)
                     ELSE [value |-> NoValue, cache |-> cache, times |-> times]
        result    == Update(chain.result, [from_cache |-> FALSE])
    IN  IF got.value # NoValue /\ DOMAIN got.value[1] # {}
        THEN [outcome |-> "returned", chain_calls |-> 0, error |-> "",
              result |-> Update(got.value[1], [from_cache |-> TRUE]),
              cache |-> got.cache, times |-> got.times, stored |-> FALSE]
        ELSE IF chain.raises
        THEN [outcome |-> "raised", chain_calls |-> 1, error |-> chain.error,
              result |-> EmptyDict,
              cache |-> got.cache, times |-> got.times, stored |-> FALSE]
        ELSE IF enable_cache /\ Truthy(Get(result, "answer", NoValue))
        THEN IF cache_key = Unbound
             THEN [outcome |-> "raised", chain_calls |-> 1,
                   error |-> UnboundLocalError, result |-> EmptyDict,
                   cache |-> got.cache, times |-> got.times, stored |-> FALSE]
             ELSE LET set == SetCached(got.cache, got.times, cache_key[1], result, later)
                  IN  [outcome |-> "returned", chain_calls |-> 1, error |-> "",
                       result |-> result,
                       cache |-> set.cache, times |-> set.times, stored |-> TRUE]
        ELSE [outcome |-> "returned", chain_calls |-> 1, error |-> "",
              result |-> result,
              cache |-> got.cache, times |-> got.times, stored |-> FALSE]

-----------------------------------------------------------------------------
(* Each part of the system at rest, while another part is examined *)

SplitIdle ==
    /\ split_text = <<>>
    /\ split_params = [max_chars |-> 2000, min_chars |-> 100, overlap |-> 200]
    /\ split_pc = "idle"
    /\ split_lines = <<>>
    /\ split_i = 1
    /\ split_state = SplitLoopInit
    /\ sub_texts = <<>>
    /\ split_result = <<>>

NoFile == 0

\* No pipeline run has been made
RunIdle ==
    /\ run_pc = "idle"
    /\ stage_i = 1
    /\ context = PipelineContext(NoFile)
    /\ payload = None
    /\ ran = <<>>
    /\ vector_db = <<>>

PipelineIdle ==
    /\ stages = <<>>
    /\ RunIdle
    /\ index_pc = "idle"
    /\ dir_files = {}
    /\ files = <<>>
    /\ file_i = 1
    /\ report = <<>>
    /\ report_file = NotSaved

\* No query has been made
ChainIdle ==
    /\ chain_pc = "idle"
    /\ chain_primary = "gemini"
    /\ chain_fallback = NoGenerator
    /\ chain_contexts = <<>>
    /\ gen_result = EmptyDict
    /\ generate_calls = <<>>
    /\ chain_result = EmptyDict

\* No search has been made
SearchIdle ==
    /\ search_pc = "idle"
    /\ dense_hits = <<>>
    /\ sparse_hits = <<>>
    /\ search_top_k = 1
    /\ search_exprs = <<NoExpr, NoExpr>>
    /\ search_result = <<>>
    /\ fused_results = <<>>

NoObject == 0

NoModel == 0

SingletonClasses == {"BGEEmbedder", "BGEM3Reranker"}

\* No thread constructs an embedder or a reranker
CtorIdle ==
    /\ ctor_pc = <<>>
    /\ ctor_cls = <<>>
    /\ ctor_obj = <<>>
    /\ cls_instance = [c \in SingletonClasses |-> NoObject]
    /\ obj_model = <<>>
    /\ model_loads = <<>>

\* svc_call before the first query call
NoCall == [op |-> "none"]

\* No QueryService has been built
ServiceIdle ==
    /\ svc_enable_cache = FALSE
    /\ svc_cache_ttl = 0
    /\ svc_cache = EmptyDict
    /\ svc_cache_times = EmptyDict
    /\ svc_now = 0
    /\ svc_calls = 0
    /\ svc_call = NoCall
    /\ svc_stores = {}

\* query_with_verification has not been called
VerifyIdle ==
    /\ verify_pc = "idle"
    /\ judge_calls = <<>>
    /\ verified_result = EmptyDict

\* No retrieval has been made
RetrieveIdle ==
    /\ retrieve_pc = "idle"
    /\ enable_reranker = FALSE
    /\ reranker = NoReranker
    /\ retrieve_args = [filters |-> NoValue, top_k |-> 1, top_n |-> 1,
                        use_reranker |-> NoValue]
    /\ candidates = <<>>
    /\ rerank_calls = <<>>
    /\ final_results = <<>>
    /\ pipeline_stats = NoStats


-----------------------------------------------------------------------------
(* The pipeline's inputs, its run and the indexing run *)

MaxStages == 3
MaxFiles == 2

\* The stage list with the Store stage put before the Embed stage
StandardStages_StoreBeforeEmbed ==
    <<"Load", "Metadata", "Chunk", "Store", "Embed", "Verify">>

\* IndexingService.__init__: the stages of its pipeline
StandardStages == <<"Load", "Metadata", "Chunk", "Embed", "Store", "Verify">>

\* The stage lists a pipeline is built with: IndexingService's, and lists of
\* up to MaxStages other stages
StageLists ==
    {StandardStages} \cup UNION { [1..n -> {"Custom"}] : n \in 0..MaxStages }

\* What the parser extracts from a file: blank text, one sentence, two articles
DocTexts ==
    { <<SP>>,
      <<"a", ".">>,
      ArticleWord \o <<SP, "1", NL>> \o ArticleWord \o <<SP, "2", ".", SP, "g", ".">> }

ParseOutcomes ==
    { [ok |-> FALSE, error |-> "All parsing strategies failed", doc |-> None] }
    \cup { [ok |-> TRUE, error |-> "", doc |-> DocData(t)] : t \in DocTexts }

DocumentCodes == {NoCode, "qcvn_06_2022_bxd"}

CustomBehaviours ==
    [writes : BOOLEAN, outcome : {"object", "none"}, error : {""}]
    \cup [writes : BOOLEAN, outcome : {"raise"}, error : {"boom", ""}]

\* The supported files rglob can find, and the directories of up to
\* MaxFiles of them
FilePaths == {11, 12, 21}
Directories == { S \in SUBSET FilePaths : Cardinality(S) <= MaxFiles }

\* IngestionPipeline.run, lines 45-46 (and the loop over no stage at all)
PipelineStart(file_path) ==
    /\ context' = PipelineContext(file_path)
    /\ payload' = PathPayload(file_path)
    /\ stage_i' = 1
    /\ ran' = <<>>
    /\ run_pc' = IF stages = <<>> THEN "completed" ELSE "running"
    /\ UNCHANGED <<stages, vector_db>>

\* A caller runs the pipeline for its next file: index_directory's loop, or
\* any caller of IngestionPipeline.run
RunPipeline ==
    /\ index_pc \in {"loop", "caller"}
    /\ run_pc = "idle"
    /\ file_i <= Len(files)
    /\ PipelineStart(files[file_i])
    /\ UNCHANGED <<splitVars, indexVars, chainVars, searchVars, retrieveVars, verifyVars, ctorVars, serviceVars>>

\* One iteration of the loop of IngestionPipeline.run, the stage having run
StageRan(res) ==
    LET after == AfterStage(res, payload, stage_i, Len(stages))
    IN  /\ context' = after.context
        /\ payload' = after.payload
        /\ run_pc' = after.run_pc
        /\ stage_i' = after.stage_i
        /\ ran' = Append(ran, stage_i)
        /\ vector_db' = vector_db \o res.inserted
        /\ UNCHANGED <<stages, splitVars, indexVars, chainVars, searchVars, retrieveVars, verifyVars, ctorVars, serviceVars>>

AtStage(kind) == run_pc = "running" /\ stages[stage_i] = kind

LoadStage ==
    /\ AtStage("Load")
    /\ \E parse \in ParseOutcomes : StageRan(LoadStageRun(context, payload, parse))

MetadataStage ==
    /\ AtStage("Metadata")
    /\ \E code \in DocumentCodes : StageRan(MetadataStageRun(context, payload, code))

ChunkStage ==
    /\ AtStage("Chunk")
    /\ StageRan(ChunkStageRun(context, payload))

EmbedStage ==
    /\ AtStage("Embed")
    /\ \E encode_ok \in BOOLEAN : StageRan(EmbedStageRun(context, payload, encode_ok))

VectorStoreStage ==
    /\ AtStage("Store")
    /\ \E insert_ok \in BOOLEAN :
          StageRan(VectorStoreStageRun(context, payload, insert_ok))

VerifyStage ==
    /\ AtStage("Verify")
    /\ StageRan(VerifyStageRun(context, payload))

CustomStage ==
    /\ AtStage("Custom")
    /\ \E does \in CustomBehaviours :
          StageRan(CustomStageRun(context, payload, does, stage_i))

\* index_directory, lines 52-77: the directory check, the collection, the files
IndexBegin ==
    /\ index_pc = "start"
    /\ \E exists \in BOOLEAN :
          IF ~exists
          THEN /\ index_pc' = "raised"
               /\ UNCHANGED <<files, vector_db>>
          ELSE /\ index_pc' = "loop"
               /\ \E drop_existing \in BOOLEAN :
                     vector_db' = IF drop_existing THEN <<>> ELSE vector_db
               /\ \E found \in Orders(dir_files) : files' = Sorted(found)
    /\ file_i' = 1
    /\ report' = <<>>
    /\ UNCHANGED <<dir_files, report_file>>
    /\ UNCHANGED <<stages, run_pc, stage_i, context, payload, ran>>
    /\ UNCHANGED <<splitVars, chainVars, searchVars, retrieveVars, verifyVars, ctorVars, serviceVars>>

\* index_directory, lines 81-85: the run has returned its context (or, were
\* it to raise, the exception leaves index_directory)
IndexAddResult ==
    /\ index_pc = "loop"
    /\ run_pc \notin {"idle", "running"}
    /\ IF run_pc = "propagated"
       THEN /\ index_pc' = "raised"
            /\ UNCHANGED <<report, report_file, file_i>>
       ELSE /\ report' = Append(report, AddResult(context))
            /\ report_file' = Save(report')
            /\ file_i' = file_i + 1
            /\ UNCHANGED index_pc
    /\ run_pc' = "idle"
    /\ UNCHANGED <<dir_files, files>>
    /\ UNCHANGED <<stages, stage_i, context, payload, ran, vector_db>>
    /\ UNCHANGED <<splitVars, chainVars, searchVars, retrieveVars, verifyVars, ctorVars, serviceVars>>

\* index_directory, lines 87-88
IndexReturn ==
    /\ index_pc = "loop"
    /\ run_pc = "idle"
    /\ file_i > Len(files)
    /\ index_pc' = "done"
    /\ UNCHANGED <<dir_files, files, file_i, report, report_file>>
    /\ UNCHANGED <<runVars, splitVars, chainVars, searchVars, retrieveVars, verifyVars, ctorVars, serviceVars>>

\* IngestionPipeline.run called for one file, by any caller, with any stage list
RunInit ==
    /\ stages \in StageLists
    /\ RunIdle
    /\ index_pc = "caller"
    /\ dir_files = {11}
    /\ files = <<11>>
    /\ file_i = 1
    /\ report = <<>>
    /\ report_file = NotSaved
    /\ SplitIdle
    /\ ChainIdle
    /\ SearchIdle
    /\ RetrieveIdle
    /\ VerifyIdle
    /\ CtorIdle
    /\ ServiceIdle

RunNext ==
    \/ RunPipeline
    \/ LoadStage \/ MetadataStage \/ ChunkStage
    \/ EmbedStage \/ VectorStoreStage \/ VerifyStage
    \/ CustomStage

SpecRun == RunInit /\ [][RunNext]_vars

\* IndexingService.index_directory over a directory
IndexInit ==
    /\ stages = StandardStages
    /\ RunIdle
    /\ index_pc = "start"
    /\ dir_files \in Directories
    /\ files = <<>>
    /\ file_i = 1
    /\ report = <<>>
    /\ report_file = NotSaved
    /\ SplitIdle
    /\ ChainIdle
    /\ SearchIdle
    /\ RetrieveIdle
    /\ VerifyIdle
    /\ CtorIdle
    /\ ServiceIdle

IndexNext ==
    \/ IndexBegin
    \/ RunPipeline
    \/ LoadStage \/ MetadataStage \/ ChunkStage
    \/ EmbedStage \/ VectorStoreStage \/ VerifyStage
    \/ IndexAddResult
    \/ IndexReturn

SpecIndex == IndexInit /\ [][IndexNext]_vars

-----------------------------------------------------------------------------
(* RAGChain.query: the retriever's and the models' answers are inputs *)

MaxContexts == 2

UserQuery == "q"

\* What retriever.retrieve can return
ContextLists ==
    { [k \in 1..n |-> [chunk_id |-> k]] : n \in 0..MaxContexts }

\* The texts of the exceptions a model call can raise
ErrorMessages ==
    { <<>>,
      <<"Q", "u", "o", "t", "a">>,
      <<"R", "a", "t", "e">>,
      <<"e", "x", "h", "a", "u", "s", "t", "e", "d">>,
      <<"l", "i", "m", "i", "t">>,
      <<"U", "n", "a", "v", "a", "i", "l", "a", "b", "l", "e">>,
      <<"t", "i", "m", "e", "o", "u", "t">>,
      <<"i", "n", "v", "a", "l", "i", "d">>,
      <<"a", "p", "i", "_", "k", "e", "y">>,
      <<"a", "u", "t", "h", "e", "n", "t", "i", "c", "a", "t", "i", "o", "n">>,
      <<"i", "n", "s", "u", "f", "f", "i", "c", "i", "e", "n", "t">>,
      <<"4", "0", "2">>,
      <<"i", "n", "v", "a", "l", "i", "d", " ", "r", "a", "t", "e">>,
      <<"b", "o", "o", "m">> }

\* What the model call inside generate can do
ModelCalls ==
    { [raises |-> TRUE, error |-> e] : e \in ErrorMessages }
    \cup { [raises |-> FALSE, text |-> t] :
              t \in {Some("an answer"), Some(""), NoValue} }

\* query without the empty-contexts return
ChainRetrieve_NoShortCircuit ==
    /\ chain_pc = "start"
    /\ \E contexts \in ContextLists :
          /\ chain_contexts' = contexts
          /\ chain_pc' = "generate"
          /\ UNCHANGED chain_result
    /\ UNCHANGED <<chain_primary, chain_fallback, gen_result, generate_calls>>
    /\ UNCHANGED <<splitVars, runVars, indexVars, searchVars, retrieveVars, verifyVars, ctorVars, serviceVars>>

\* query, lines 72-91: the retrieval and the return when nothing was found
ChainRetrieve ==
    /\ chain_pc = "start"
    /\ \E contexts \in ContextLists :
          /\ chain_contexts' = contexts
          /\ IF contexts = <<>>
             THEN /\ chain_result' = NoInfoResult
                  /\ chain_pc' = "returned"
             ELSE /\ chain_pc' = "generate"
                  /\ UNCHANGED chain_result
    /\ UNCHANGED <<chain_primary, chain_fallback, gen_result, generate_calls>>
    /\ UNCHANGED <<splitVars, runVars, indexVars, searchVars, retrieveVars, verifyVars, ctorVars, serviceVars>>

\* A generate call has been made; an exception leaving it leaves query
AfterGenerate(who, provider, g, more) ==
    /\ generate_calls' = Append(generate_calls,
                                [generator |-> who, provider |-> provider,
                                 raised |-> g.raised, result |-> g.result])
    /\ IF g.raised
       THEN /\ chain_pc' = "raised"
            /\ UNCHANGED <<gen_result, chain_result>>
       ELSE /\ gen_result' = g.result
            /\ IF more
               THEN /\ chain_pc' = "fallback"
                    /\ UNCHANGED chain_result
               ELSE /\ chain_pc' = "returned"
                    /\ chain_result' = BuildResult(g.result, chain_contexts,
                                                   who = "fallback")
    /\ UNCHANGED <<chain_primary, chain_fallback, chain_contexts>>
    /\ UNCHANGED <<splitVars, runVars, indexVars, searchVars, retrieveVars, verifyVars, ctorVars, serviceVars>>

\* query, lines 93-105 (and 115-132 when no fallback is made)
ChainPrimary ==
    /\ chain_pc = "generate"
    /\ \E call \in ModelCalls :
          LET g == Generate(chain_primary, UserQuery, chain_contexts, call)
          IN  AfterGenerate("primary", chain_primary, g,
                            NeedsFallback(g.result) /\ chain_fallback # NoGenerator)

\* query, lines 106-132
ChainFallback ==
    /\ chain_pc = "fallback"
    /\ \E call \in ModelCalls :
          LET g == Generate(chain_fallback, UserQuery, chain_contexts, call)
          IN  AfterGenerate("fallback", chain_fallback, g, FALSE)

ChainInit ==
    /\ chain_pc = "start"
    /\ chain_primary \in Providers
    /\ chain_fallback \in Providers \cup {NoGenerator}
    /\ chain_contexts = <<>>
    /\ gen_result = EmptyDict
    /\ generate_calls = <<>>
    /\ chain_result = EmptyDict
    /\ SplitIdle
    /\ PipelineIdle
    /\ SearchIdle
    /\ RetrieveIdle
    /\ VerifyIdle
    /\ CtorIdle
    /\ ServiceIdle

ChainNext == ChainRetrieve \/ ChainPrimary \/ ChainFallback

SpecChain == ChainInit /\ [][ChainNext]_vars

-----------------------------------------------------------------------------
(* query_with_verification: one query, then the judge *)

JudgeResponses ==
    { <<"S", "U", "P", "P", "O", "R", "T", "E", "D">>,
      <<"N", "O", "T", "_", "S", "U", "P", "P", "O", "R", "T", "E", "D">>,
      <<"n", "o", "t", "_", "s", "u", "p", "p", "o", "r", "t", "e", "d">>,
      <<"S", "u", "p", "p", "o", "r", "t", "e", "d", ".">>,
      <<"N", "O", "T", " ", "S", "U", "P", "P", "O", "R", "T", "E", "D">>,
      <<"y", "e", "s">>,
      <<>> }

\* What primary.generate_text can do
JudgeCalls ==
    { [raises |-> TRUE, text |-> NoValue] }
    \cup { [raises |-> FALSE, text |-> t] :
              t \in {NoValue} \cup { Some(r) : r \in JudgeResponses } }

\* query_with_verification after query returned (chain.py 155-163)
VerifyReturn ==
    /\ verify_pc = "call"
    /\ chain_pc = "returned"
    /\ IF RunsJudge(chain_result)
       THEN \E judge \in JudgeCalls :
               /\ judge_calls' = Append(judge_calls, judge)
               /\ verified_result' = Annotate(chain_result, VerifyFaithfulness(judge))
       ELSE /\ verified_result' = chain_result
            /\ UNCHANGED judge_calls
    /\ verify_pc' = "returned"
    /\ UNCHANGED <<splitVars, runVars, indexVars, chainVars, searchVars, retrieveVars, ctorVars, serviceVars>>

VerifyInit ==
    /\ verify_pc = "call"
    /\ judge_calls = <<>>
    /\ verified_result = EmptyDict
    /\ chain_pc = "start"
    /\ chain_primary \in Providers
    /\ chain_fallback \in Providers \cup {NoGenerator}
    /\ chain_contexts = <<>>
    /\ gen_result = EmptyDict
    /\ generate_calls = <<>>
    /\ chain_result = EmptyDict
    /\ SplitIdle
    /\ PipelineIdle
    /\ SearchIdle
    /\ RetrieveIdle
    /\ CtorIdle
    /\ ServiceIdle

VerifyNext == ChainRetrieve \/ ChainPrimary \/ ChainFallback \/ VerifyReturn

SpecVerify == VerifyInit /\ [][VerifyNext]_vars

-----------------------------------------------------------------------------
(* retrieval/embedder.py, BGEEmbedder.__new__ and __init__, and              *)
(* retrieval/rerankers.py, BGEM3Reranker.__new__ and __init__: MaxThreads    *)
(* threads each construct one object, a step being one statement            *)

MaxThreads == 2

Threads == 1..MaxThreads

\* __new__: if cls._instance is None
NewCheck(t) ==
    /\ ctor_pc[t] = "new"
    /\ ctor_pc' = [ctor_pc EXCEPT ![t] =
                      IF cls_instance[ctor_cls[t]] = NoObject THEN "create" ELSE "return"]
    /\ UNCHANGED <<ctor_cls, ctor_obj, cls_instance, obj_model, model_loads>>
    /\ UNCHANGED <<splitVars, runVars, indexVars, chainVars, searchVars, retrieveVars, verifyVars, serviceVars>>

\* __new__: cls._instance = super().__new__(cls)
NewCreate(t) ==
    /\ ctor_pc[t] = "create"
    /\ obj_model' = Append(obj_model, NoModel)
    /\ cls_instance' = [cls_instance EXCEPT ![ctor_cls[t]] = Len(obj_model) + 1]
    /\ ctor_pc' = [ctor_pc EXCEPT ![t] = "return"]
    /\ UNCHANGED <<ctor_cls, ctor_obj, model_loads>>
    /\ UNCHANGED <<splitVars, runVars, indexVars, chainVars, searchVars, retrieveVars, verifyVars, serviceVars>>

\* __new__: return cls._instance
NewReturn(t) ==
    /\ ctor_pc[t] = "return"
    /\ ctor_obj' = [ctor_obj EXCEPT ![t] = cls_instance[ctor_cls[t]]]
    /\ ctor_pc' = [ctor_pc EXCEPT ![t] = "init"]
    /\ UNCHANGED <<ctor_cls, cls_instance, obj_model, model_loads>>
    /\ UNCHANGED <<splitVars, runVars, indexVars, chainVars, searchVars, retrieveVars, verifyVars, serviceVars>>

\* __init__: if self._model is not None: return
InitCheck(t) ==
    /\ ctor_pc[t] = "init"
    /\ ctor_pc' = [ctor_pc EXCEPT ![t] =
                      IF obj_model[ctor_obj[t]] # NoModel THEN "done" ELSE "load"]
    /\ UNCHANGED <<ctor_cls, ctor_obj, cls_instance, obj_model, model_loads>>
    /\ UNCHANGED <<splitVars, runVars, indexVars, chainVars, searchVars, retrieveVars, verifyVars, serviceVars>>

\* __init__: self._model = BGEM3FlagModel(...) or FlagReranker(...), which
\* loads the model or raises
InitLoad(t) ==
    /\ ctor_pc[t] = "load"
    /\ \E loaded \in BOOLEAN :
          IF loaded
          THEN /\ model_loads' = Append(model_loads, ctor_cls[t])
               /\ obj_model' = [obj_model EXCEPT ![ctor_obj[t]] = Len(model_loads) + 1]
               /\ ctor_pc' = [ctor_pc EXCEPT ![t] = "done"]
          ELSE /\ ctor_pc' = [ctor_pc EXCEPT ![t] = "raised"]
               /\ UNCHANGED <<obj_model, model_loads>>
    /\ UNCHANGED <<ctor_cls, ctor_obj, cls_instance>>
    /\ UNCHANGED <<splitVars, runVars, indexVars, chainVars, searchVars, retrieveVars, verifyVars, serviceVars>>

CtorInit ==
    /\ ctor_pc = [t \in Threads |-> "new"]
    /\ ctor_cls \in [Threads -> SingletonClasses]
    /\ ctor_obj = [t \in Threads |-> NoObject]
    /\ cls_instance = [c \in SingletonClasses |-> NoObject]
    /\ obj_model = <<>>
    /\ model_loads = <<>>
    /\ SplitIdle
    /\ PipelineIdle
    /\ ChainIdle
    /\ SearchIdle
    /\ RetrieveIdle
    /\ VerifyIdle
    /\ ServiceIdle

CtorNext ==
    \E t \in Threads :
        NewCheck(t) \/ NewCreate(t) \/ NewReturn(t) \/ InitCheck(t) \/ InitLoad(t)

SpecCtor == CtorInit /\ [][CtorNext]_vars

-----------------------------------------------------------------------------
(* QueryService: query and clear_cache calls as time passes *)

MaxCalls == 3

MaxTime == 3

\* The values of cache_ttl a service is built with
CacheTtls == {0, 1}

\* The arguments of the query calls: two questions, one of them also with a
\* keyword argument
QueryArgs ==
    { [question |-> "q1", kwargs |-> <<>>],
      [question |-> "q1", kwargs |-> <<[name |-> "top_k", value |-> "5"]>>],
      [question |-> "q2", kwargs |-> <<>>] }

\* What chain.query does: it raises, or returns a result with an answer,
\* with an empty answer or with answer None
ChainQueryOutcomes ==
    { [raises |-> TRUE, error |-> "retrieval failed", result |-> EmptyDict] }
    \cup { [raises |-> FALSE, error |-> "",
            result |-> [answer |-> a, used_fallback |-> FALSE]] :
              a \in {Some("an answer"), Some(""), NoValue} }

\* One call of query; chain.query, when called, takes elapsed seconds
QueryCall ==
    /\ svc_calls < MaxCalls
    /\ \E args \in QueryArgs, use_cache \in BOOLEAN,
          chain \in ChainQueryOutcomes, elapsed \in 0..1 :
          LET later == IF svc_now + elapsed <= MaxTime
                       THEN svc_now + elapsed ELSE svc_now
              q == Query(svc_enable_cache, svc_cache_ttl, svc_cache,
                         svc_cache_times, args.question, args.kwargs,
                         use_cache, chain, svc_now, later)
              finished == IF q.chain_calls = 0 THEN svc_now ELSE later
          IN  /\ svc_cache' = q.cache
              /\ svc_cache_times' = q.times
              /\ svc_now' = finished
              /\ svc_calls' = svc_calls + 1
              /\ svc_call' = [op |-> "query", question |-> args.question,
                              kwargs |-> args.kwargs, use_cache |-> use_cache,
                              chain |-> chain, time |-> svc_now,
                              outcome |-> q.outcome, error |-> q.error,
                              chain_calls |-> q.chain_calls, result |-> q.result]
              /\ svc_stores' =
                    IF q.stored
                    THEN svc_stores \cup {[question |-> args.question,
                                           kwargs |-> args.kwargs,
                                           result |-> q.result,
                                           time |-> finished]}
                    ELSE svc_stores
    /\ UNCHANGED <<svc_enable_cache, svc_cache_ttl>>
    /\ UNCHANGED <<splitVars, runVars, indexVars, chainVars, searchVars, retrieveVars, verifyVars, ctorVars>>

\* clear_cache
ClearCache ==
    /\ svc_cache' = EmptyDict
    /\ svc_cache_times' = EmptyDict
    /\ svc_stores' = {}
    /\ UNCHANGED <<svc_enable_cache, svc_cache_ttl, svc_now, svc_calls, svc_call>>
    /\ UNCHANGED <<splitVars, runVars, indexVars, chainVars, searchVars, retrieveVars, verifyVars, ctorVars>>

\* A second passes between two calls
Tick ==
    /\ svc_now < MaxTime
    /\ svc_now' = svc_now + 1
    /\ UNCHANGED <<svc_enable_cache, svc_cache_ttl, svc_cache, svc_cache_times,
                   svc_calls, svc_call, svc_stores>>
    /\ UNCHANGED <<splitVars, runVars, indexVars, chainVars, searchVars, retrieveVars, verifyVars, ctorVars>>

\* QueryService.__init__
ServiceInit ==
    /\ svc_enable_cache \in BOOLEAN
    /\ svc_cache_ttl \in CacheTtls
    /\ svc_cache = EmptyDict
    /\ svc_cache_times = EmptyDict
    /\ svc_now = 0
    /\ svc_calls = 0
    /\ svc_call = NoCall
    /\ svc_stores = {}
    /\ SplitIdle
    /\ PipelineIdle
    /\ ChainIdle
    /\ SearchIdle
    /\ RetrieveIdle
    /\ VerifyIdle
    /\ CtorIdle

ServiceNext == QueryCall \/ ClearCache \/ Tick

SpecService == ServiceInit /\ [][ServiceNext]_vars

-----------------------------------------------------------------------------
(* The inputs of search: hit lists of up to MaxHits hits, no id twice in a  *)
(* list, never more hits than the limit top_k asked for                     *)

ChunkIds == 1..MaxHits

TopKs == 1..MaxHits

IdLists ==
    UNION { { q \in [1..n -> ChunkIds] : \A i, j \in 1..n : i # j => q[i] # q[j] }
            : n \in 0..MaxHits }

\* The text of a hit names the search that returned it
HitList(q, text) == [i \in 1..Len(q) |-> Hit(q[i], text)]

\* search with the answers of the two collection.search calls
SearchCall(top_k, expr, dense_results, sparse_results) ==
    /\ search_top_k' = top_k
    /\ search_exprs' = <<expr, expr>>
    /\ dense_hits' = dense_results
    /\ sparse_hits' = sparse_results
    /\ search_result' = Search(dense_results, sparse_results, top_k)

MilvusSearch ==
    /\ search_pc = "start"
    /\ \E top_k \in TopKs, qd \in IdLists, qs \in IdLists :
          /\ Len(qd) <= top_k
          /\ Len(qs) <= top_k
          /\ SearchCall(top_k, NoExpr, HitList(qd, "dense"), HitList(qs, "sparse"))
    /\ search_pc' = "searched"
    /\ UNCHANGED fused_results
    /\ UNCHANGED <<splitVars, runVars, indexVars, chainVars, retrieveVars, verifyVars, ctorVars, serviceVars>>

\* fuse_results on the same two lists, as dictionaries
FuseResultsCall ==
    /\ search_pc = "searched"
    /\ fused_results' = FuseResults(DocsOfHits(dense_hits), DocsOfHits(sparse_hits))
    /\ search_pc' = "fused"
    /\ UNCHANGED <<dense_hits, sparse_hits, search_top_k, search_exprs, search_result>>
    /\ UNCHANGED <<splitVars, runVars, indexVars, chainVars, retrieveVars, verifyVars, ctorVars, serviceVars>>

SearchInit ==
    /\ search_pc = "start"
    /\ dense_hits = <<>>
    /\ sparse_hits = <<>>
    /\ search_top_k = 1
    /\ search_exprs = <<NoExpr, NoExpr>>
    /\ search_result = <<>>
    /\ fused_results = <<>>
    /\ SplitIdle
    /\ PipelineIdle
    /\ ChainIdle
    /\ RetrieveIdle
    /\ VerifyIdle
    /\ CtorIdle
    /\ ServiceIdle

SearchNext == MilvusSearch \/ FuseResultsCall

SpecSearch == SearchInit /\ [][SearchNext]_vars

-----------------------------------------------------------------------------
(* The inputs of retrieve: the retriever as RAGSystem builds it, the         *)
(* arguments of the call, the hits of the two searches and the scores of    *)
(* the reranker                                                             *)

\* filters: absent, empty, or one or two fields with a list, a string or an
\* integer value
FilterPool ==
    { NoValue,
      Some(<<>>),
      Some(<< <<"document_name", ListValue(<<"QCVN 06", "QCVN 01">>)>> >>),
      Some(<< <<"chapter", StrValue("II")>> >>),
      Some(<< <<"page_number", IntValue(3)>> >>),
      Some(<< <<"document_name", ListValue(<<"QCVN 06">>)>>,
              <<"chapter", StrValue("II")>> >>),
      Some(<< <<"document_name", ListValue(<<"QCVN 06">>)>>,
              <<"page_number", IntValue(3)>> >>) }

TopNs == 1..MaxHits

UseRerankerArgs == {NoValue, Some(TRUE), Some(FALSE)}

\* The ids in order, and in the opposite order, up to every length
RetrieveIdLists ==
    { [i \in 1..n |-> i] : n \in 0..MaxHits }
        \cup { [i \in 1..n |-> MaxHits + 1 - i] : n \in 0..MaxHits }

\* Every stored chunk has its own text
StoredHits(q) == [i \in 1..Len(q) |-> Hit(q[i], "text " \o ToString(q[i]))]

RerankScores == {1, 2}

LatenciesMs == {0, 7}

\* retrieve up to the list of candidates (retriever.py 71-113)
RetrieveSearch ==
    /\ retrieve_pc = "start"
    /\ \E qd \in RetrieveIdLists, qs \in RetrieveIdLists :
          /\ Len(qd) <= retrieve_args.top_k
          /\ Len(qs) <= retrieve_args.top_k
          /\ SearchCall(retrieve_args.top_k, BuildFilterExpr(retrieve_args.filters),
                        StoredHits(qd), StoredHits(qs))
          /\ LET retrieval_results ==
                     Search(StoredHits(qd), StoredHits(qs), retrieve_args.top_k)
             IN  /\ candidates' = Candidates(retrieval_results)
                 /\ pipeline_stats' =
                        [pipeline_stats EXCEPT !.candidates_count = Len(retrieval_results)]
    /\ search_pc' = "searched"
    /\ retrieve_pc' = "searched"
    /\ UNCHANGED <<fused_results, enable_reranker, reranker, retrieve_args,
                   rerank_calls, final_results>>
    /\ UNCHANGED <<splitVars, runVars, indexVars, chainVars, verifyVars, ctorVars, serviceVars>>

\* The branch of retrieve that applies (retriever.py 116-118)
SkipsRerank ==
    \/ ~ShouldRerank(retrieve_args.use_reranker, enable_reranker)
    \/ reranker = NoReranker

\* retrieve without reranking, to its return (retriever.py 118-123, 133-140)
RetrieveWithoutRerank ==
    /\ retrieve_pc = "searched"
    /\ SkipsRerank
    /\ final_results' = SkipRerank(candidates, retrieve_args.top_n)
    /\ pipeline_stats' =
           [pipeline_stats EXCEPT !.reranking_ms = 0,
                                  !.final_count = Len(final_results')]
    /\ retrieve_pc' = "done"
    /\ UNCHANGED <<enable_reranker, reranker, retrieve_args, candidates, rerank_calls>>
    /\ UNCHANGED <<splitVars, runVars, indexVars, chainVars, searchVars, verifyVars, ctorVars, serviceVars>>

\* retrieve with reranking, to its return (retriever.py 124-140)
RetrieveRerank ==
    /\ retrieve_pc = "searched"
    /\ ~SkipsRerank
    /\ \E scores \in [1..Len(candidates) -> RerankScores], latency_ms \in LatenciesMs :
          /\ rerank_calls' = Append(rerank_calls,
                                    [documents |-> candidates, scores |-> scores,
                                     top_n |-> retrieve_args.top_n])
          /\ final_results' = Rerank(candidates, scores, retrieve_args.top_n)
          /\ pipeline_stats' =
                 [pipeline_stats EXCEPT !.reranking_ms = latency_ms,
                                        !.final_count = Len(final_results')]
    /\ retrieve_pc' = "done"
    /\ UNCHANGED <<enable_reranker, reranker, retrieve_args, candidates>>
    /\ UNCHANGED <<splitVars, runVars, indexVars, chainVars, searchVars, verifyVars, ctorVars, serviceVars>>

\* A RAGSystem with either setting, and one call of its retriever
RetrieveInit ==
    /\ retrieve_pc = "start"
    /\ enable_reranker \in BOOLEAN
    /\ reranker = RAGSystemReranker(enable_reranker)
    /\ retrieve_args \in [filters : FilterPool, top_k : TopKs, top_n : TopNs,
                          use_reranker : UseRerankerArgs]
    /\ candidates = <<>>
    /\ rerank_calls = <<>>
    /\ final_results = <<>>
    /\ pipeline_stats = NoStats
    /\ SplitIdle
    /\ PipelineIdle
    /\ ChainIdle
    /\ SearchIdle
    /\ VerifyIdle
    /\ CtorIdle
    /\ ServiceIdle

RetrieveNext == RetrieveSearch \/ RetrieveWithoutRerank \/ RetrieveRerank

SpecRetrieve == RetrieveInit /\ [][RetrieveNext]_vars

-----------------------------------------------------------------------------
(* The inputs of split: texts of up to MaxLines lines drawn from LinePool *)

MaxLines == 3

LinePool ==
    { <<>>,                                             \* an empty line
      <<SP>>,                                           \* a blank line
      <<"a", ".">>,                                     \* a.
      <<"b", "b", ".", SP, "c", "c", ".">>,             \* bb. cc.
      <<SP, "e", ".", SP, SP, "f">>,                    \*  e.  f
      ArticleWord \o <<SP, "1">>,                       \* Dieu 1
      ArticleWord \o <<SP, "2", ".", SP, "g", ".">>,    \* Dieu 2. g.
      <<"C", "H", "U", "O", "N", "G", SP, "I", "I", ":", SP, "h">> }  \* CHUONG II: h

\* (max_chars, min_chars, overlap): the defaults of core/constants.py and
\* sizes small enough for the pool's blocks to exceed them
SplitterParams ==
    { [max_chars |-> 2000, min_chars |-> 100, overlap |-> 200],
      [max_chars |-> 5,    min_chars |-> 3,   overlap |-> 0],
      [max_chars |-> 5,    min_chars |-> 3,   overlap |-> 2],
      [max_chars |-> 12,   min_chars |-> 20,  overlap |-> 2] }

Texts ==
    { Join(ls, <<NL>>) : ls \in UNION { [1..n -> LinePool] : n \in 1..MaxLines } }

SplitDocId == "doc"

\* split is about to flush current_block: the next line is a header, or the
\* loop is over
FlushesNow ==
    /\ split_pc = "loop"
    /\ split_state.current_block # <<>>
    /\ \/ split_i > Len(split_lines)
       \/ /\ split_i <= Len(split_lines)
          /\ \/ CHAPTER_PATTERN(Strip(split_lines[split_i])).ok
             \/ ARTICLE_PATTERN(Strip(split_lines[split_i])).ok

BlockText == Join(split_state.current_block, <<NL>>)

\* _create_chunks_from_block, line 193: the segments of the block being
\* flushed, when it is longer than max_chars
BlockSubTexts ==
    IF Len(BlockText) > split_params.max_chars
    THEN RecursiveSplit(BlockText, split_params)
    ELSE <<>>

SplitInit ==
    /\ split_text \in Texts
    /\ split_params \in SplitterParams
    /\ split_pc = "start"
    /\ split_lines = <<>>
    /\ split_i = 1
    /\ split_state = SplitLoopInit
    /\ sub_texts = <<>>
    /\ split_result = <<>>
    /\ PipelineIdle
    /\ ChainIdle
    /\ SearchIdle
    /\ RetrieveIdle
    /\ VerifyIdle
    /\ CtorIdle
    /\ ServiceIdle

\* split, lines 71-85: the empty-document return, or the start of the loop
SplitBegin ==
    /\ split_pc = "start"
    /\ IF IsBlankText(split_text)
       THEN /\ split_pc' = "done"
            /\ UNCHANGED split_lines
       ELSE /\ split_pc' = "loop"
            /\ split_lines' = StrSplit(split_text, <<NL>>)
    /\ UNCHANGED <<split_text, split_params, split_i, split_state, sub_texts,
                   split_result>>
    /\ UNCHANGED <<runVars, indexVars, chainVars, searchVars, retrieveVars, verifyVars, ctorVars, serviceVars>>

\* split, lines 87-130: one line of the loop
SplitLoop ==
    /\ split_pc = "loop"
    /\ split_i <= Len(split_lines)
    /\ split_state' = SplitLine(split_state, split_lines[split_i],
                                SplitDocId, split_params)
    /\ split_i' = split_i + 1
    /\ sub_texts' = IF FlushesNow THEN BlockSubTexts ELSE sub_texts
    /\ UNCHANGED <<split_text, split_params, split_pc, split_lines, split_result>>
    /\ UNCHANGED <<runVars, indexVars, chainVars, searchVars, retrieveVars, verifyVars, ctorVars, serviceVars>>

\* split, lines 132-152: the last flush, the ids, the return
SplitReturn ==
    /\ split_pc = "loop"
    /\ split_i > Len(split_lines)
    /\ split_result' = SplitFinish(split_state, SplitDocId, split_params)
    /\ split_pc' = "done"
    /\ sub_texts' = IF FlushesNow THEN BlockSubTexts ELSE sub_texts
    /\ UNCHANGED <<split_text, split_params, split_lines, split_i, split_state>>
    /\ UNCHANGED <<runVars, indexVars, chainVars, searchVars, retrieveVars, verifyVars, ctorVars, serviceVars>>

SplitNext == SplitBegin \/ SplitLoop \/ SplitReturn

SpecSplit == SplitInit /\ [][SplitNext]_vars

-----------------------------------------------------------------------------
(* Claims about StructuralSplitter.split *)

\* C9: a block shorter than min_chars that follows at least one emitted chunk
\* is appended to the previous chunk's text and adds no chunk of its own.
C9_ShortBlockMerged ==
    [][ (FlushesNow /\ Len(BlockText) < split_params.min_chars
                    /\ split_state.chunks # <<>>)
        => LET before == split_state.chunks
               after  == IF split_pc' = "done" THEN split_result'
                                               ELSE split_state'.chunks
           IN  /\ Len(after) = Len(before)
               /\ after[Len(after)].text
                     = before[Len(before)].text \o <<NL>> \o BlockText
      ]_vars

\* len(text) minus its whitespace
NonSpaceCount(s) == Cardinality({ i \in 1..Len(s) : s[i] \notin Whitespace })

ResultTexts == [i \in 1..Len(split_result) |-> split_result[i].text]

InSomeChunk(t) ==
    \E i \in 1..Len(split_result) : Contains(split_result[i].text, t)

InputLines == StrSplit(split_text, <<NL>>)

\* What C10 states apart from the containment of the input's content
NoLossFrame ==
    /\ (split_result = <<>>) <=> IsBlankText(split_text)
    /\ \A i \in 1..Len(split_result) : split_result[i].text # <<>>
    /\ SumLen(ResultTexts) >= NonSpaceCount(split_text)

\* C10 as stated: split returns no chunk exactly for blank input, no chunk is
\* empty, every non-blank input line (stripped) lies within the text of some
\* chunk, and the chunk texts sum to at least the input's non-whitespace length.
C10_EveryLineInSomeChunk ==
    split_pc = "done" =>
        /\ NoLossFrame
        /\ \A k \in 1..Len(InputLines) :
              Strip(InputLines[k]) # <<>> => InSomeChunk(Strip(InputLines[k]))

\* C10 amended: as above, with every sentence of every non-blank input line
\* (its pieces between the whitespace runs that follow '.', '!' or '?')
\* lying within the text of some chunk.
C10_EverySentenceInSomeChunk ==
    split_pc = "done" =>
        /\ NoLossFrame
        /\ \A k \in 1..Len(InputLines) :
              LET sentences == SplitSentences(Strip(InputLines[k]))
              IN  \A j \in 1..Len(sentences) :
                      sentences[j] # <<>> => InSomeChunk(sentences[j])

\* A finished split of a non-blank text in which a block was cut into clauses
C10_Witness ==
    /\ split_pc = "done"
    /\ Len(split_result) >= 2
    /\ \E i \in 1..Len(split_result) : split_result[i].clause # NoClause
    /\ \E k \in 1..Len(InputLines) :
          Strip(InputLines[k]) # <<>> /\ ~InSomeChunk(Strip(InputLines[k]))

\* C11: no returned chunk has text longer than max_chars, except a chunk that
\* is one single sentence itself longer than max_chars.
C11_NoChunkOverMaxChars ==
    split_pc = "done" =>
        \A i \in 1..Len(split_result) :
            Len(split_result[i].text) > split_params.max_chars
                => Len(SplitSentences(split_result[i].text)) = 1

\* The seed the next segment is to start with: the whole last sentence of
\* the segment when shorter than overlap, else its last `overlap` characters
ExpectedSeed(segment) ==
    LET units == SplitSentences(segment)
        last  == units[Len(units)]
    IN  IF Len(last) < split_params.overlap
        THEN last
        ELSE LastChars(segment, split_params.overlap)

\* C12: when _recursive_split cuts a block into several segments, every
\* segment after the first starts with the last `overlap` characters of the
\* one before (or its whole last sentence when that is shorter), so that no
\* more than `overlap` characters are carried over.
C12_SegmentsShareOverlap ==
    \A i \in 2..Len(sub_texts) :
        LET units == SplitSentences(sub_texts[i - 1])
            last  == units[Len(units)]
        IN  /\ StartsWith(sub_texts[i], ExpectedSeed(sub_texts[i - 1]))
            /\ split_params.overlap > 0 =>
                  ~(Len(last) > split_params.overlap /\ StartsWith(sub_texts[i], last))

-----------------------------------------------------------------------------
(* Claims about IngestionPipeline.run, the stages and the run report *)

InOrder(n) == [k \in 1..n |-> k]

\* C1: when stage i returns None the run stops there: stages 1..i are the
\* ones that ran, no error is recorded for it and the context is returned.
\* With the six standard stages, Chunk returning None leaves Embed, Store
\* and Verify unrun and nothing inserted.
C1_NoneStopsRun ==
    /\ (run_pc # "idle" /\ payload.kind = "none") => run_pc = "break"
    /\ run_pc = "break" =>
          /\ payload.kind = "none"
          /\ ran = InOrder(stage_i)
          /\ context.errors = <<>>
          /\ stages = StandardStages =>
                (stage_i = 3 /\ ran = <<1, 2, 3>> /\ vector_db = <<>>)

\* A run stopped by a None before its last stage
C1_Witness == run_pc = "break" /\ stage_i < Len(stages)

\* The results the stage about to run can have
StageResults ==
    LET kind == stages[stage_i]
    IN  CASE kind = "Load" ->
                { LoadStageRun(context, payload, x) : x \in ParseOutcomes }
          [] kind = "Metadata" ->
                { MetadataStageRun(context, payload, x) : x \in DocumentCodes }
          [] kind = "Chunk" -> { ChunkStageRun(context, payload) }
          [] kind = "Embed" ->
                { EmbedStageRun(context, payload, x) : x \in BOOLEAN }
          [] kind = "Store" ->
                { VectorStoreStageRun(context, payload, x) : x \in BOOLEAN }
          [] kind = "Verify" -> { VerifyStageRun(context, payload) }
          [] OTHER ->
                { CustomStageRun(context, payload, x, stage_i) : x \in CustomBehaviours }

\* Every entry of dictionary m is in m2 with the same value
EntriesKept(m, m2) ==
    \A k \in DOMAIN m : k \in DOMAIN m2 /\ m2[k] = m[k]

\* C3: when stage i raises, run does not raise to its caller, stages 1..i
\* are the ones that ran, exactly one entry, the exception's message, is
\* appended to context.errors, and the metadata and stats written before
\* the failure are still in the returned context.
C3_RaiseStopsRun ==
    /\ [](run_pc # "propagated")
    /\ [](run_pc = "except" => ran = InOrder(stage_i))
    /\ [][ (run_pc = "running" /\ run_pc' \notin {"running", "completed", "break"})
           => /\ run_pc' = "except"
              /\ \E res \in StageResults :
                    /\ res.raised
                    /\ context'.errors = Append(context.errors, res.error)
              /\ EntriesKept(context.metadata, context'.metadata)
              /\ EntriesKept(context.stats, context'.stats)
              /\ context'.file_path = context.file_path
       ]_vars

\* A run stopped by an exception before its last stage, with metadata and
\* stats of the earlier stages in the context
C3_Witness ==
    /\ run_pc = "except"
    /\ stage_i > 1
    /\ stage_i < Len(stages)
    /\ Len(context.errors) = 1
    /\ DOMAIN context.metadata # {}
    /\ DOMAIN context.stats # {}

\* The file whose pipeline run has just stopped at Chunk returning None
ZeroChunks ==
    /\ index_pc = "loop"
    /\ run_pc = "break"
    /\ stages[stage_i] = "Chunk"

\* C2: a file whose Chunk stage produced zero chunks in the standard
\* pipeline is reported with status "skipped".
C2_ZeroChunksSkipped ==
    [][ ZeroChunks => report'[Len(report')].status = "skipped" ]_vars

\* C4: index_directory processes the files in sorted order and adds exactly
\* one FileReport per file, whatever the file's pipeline run ended as; only
\* a missing directory makes it raise, before any file.
C4_OneReportPerFile ==
    /\ run_pc # "propagated"
    /\ index_pc \in {"loop", "done"} =>
          /\ \A a, b \in 1..Len(files) : a < b => files[a] < files[b]
          /\ { files[k] : k \in 1..Len(files) } = dir_files
          /\ Len(report) = file_i - 1
          /\ file_i <= Len(files) + 1
          /\ \A k \in 1..Len(report) : report[k].file_name = PathName(files[k])
          /\ report_file.summary.total_files = Len(report)
    /\ index_pc = "done" => Len(report) = Len(files)
    /\ index_pc = "raised" => (files = <<>> /\ report = <<>>)

\* A finished run whose first file failed and whose second did not
C4_Witness ==
    /\ index_pc = "done"
    /\ Len(report) >= 2
    /\ report[1].status = "failed"
    /\ report[2].status = "success"
    /\ report[2].chunks_indexed > 0

\* The file whose pipeline run has just stopped at vector_db.insert raising
StoreFailed ==
    /\ index_pc = "loop"
    /\ run_pc = "except"
    /\ stages[stage_i] = "Store"

\* C5: when vector_db.insert raises, Verify does not run for the file, the
\* exception's text is in the file's errors and the file is reported as
\* "failed" with that text.
C5_StoreFailureReported ==
    [][ StoreFailed
        => /\ ran = InOrder(stage_i)
           /\ \E e \in 1..Len(context.errors) : context.errors[e] = "insert failed"
           /\ Len(report') = Len(report) + 1
           /\ LET r == report'[Len(report')]
              IN  /\ r.file_name = PathName(context.file_path)
                  /\ r.status = "failed"
                  /\ \E e \in 1..Len(r.errors) : r.errors[e] = "insert failed"
                  /\ r.chunks_indexed = 0
      ]_vars

\* A report entry of a file whose insert raised
C5_Witness ==
    \E k \in 1..Len(report) :
        /\ report[k].status = "failed"
        /\ report[k].errors = <<"insert failed">>
        /\ "chunks_created" \in DOMAIN report[k].stats

-----------------------------------------------------------------------------
(* Claims about RAGChain.query *)

\* The result of the primary generator's generate call
PrimaryResult == generate_calls[1].result

FallbackCalled ==
    \E k \in 1..Len(generate_calls) : generate_calls[k].generator = "fallback"

\* C6: with at least one context, a primary that produced no answer and
\* whose error is classified AUTH_ERROR never leads to a call of the
\* fallback's generate; one whose error is classified RATE_LIMIT_ERROR,
\* API_UNAVAILABLE or UNKNOWN_ERROR, with a fallback configured, does.
C6_FallbackGating ==
    (chain_contexts # <<>> /\ generate_calls # <<>> /\ ~Truthy(PrimaryResult.answer))
    => /\ PrimaryResult.error_type = Some("AUTH_ERROR") => ~FallbackCalled
       /\ ( /\ PrimaryResult.error_type \in
                  {Some("RATE_LIMIT_ERROR"), Some("API_UNAVAILABLE"),
                   Some("UNKNOWN_ERROR")}
            /\ chain_fallback # NoGenerator )
          => \/ chain_pc = "fallback"
             \/ /\ chain_pc = "returned"
                /\ Len(generate_calls) = 2
                /\ generate_calls[2].generator = "fallback"
                /\ generate_calls[2].provider = chain_fallback
                /\ chain_result.used_fallback

\* A query returned after an AUTH_ERROR of the primary, a fallback being
\* configured
C6_Witness ==
    /\ chain_pc = "returned"
    /\ chain_fallback # NoGenerator
    /\ generate_calls # <<>>
    /\ PrimaryResult.error_type = Some("AUTH_ERROR")
    /\ chain_result.error_type = Some("AUTH_ERROR")
    /\ ~chain_result.used_fallback

\* C7: when the retriever returns no contexts the result is the fixed
\* answer with empty contexts and used_fallback false, and no generate call
\* is made at any point of the query.
C7_NoContextsNoGeneration ==
    (chain_pc \notin {"idle", "start"} /\ chain_contexts = <<>>)
    => /\ generate_calls = <<>>
       /\ chain_pc = "returned"
       /\ chain_result.answer = Some(NoInfoAnswer)
       /\ chain_result.contexts = <<>>
       /\ chain_result.used_fallback = FALSE
       /\ chain_result.model = NoValue

\* A query returned on empty retrieval with both generators configured
C7_Witness ==
    /\ chain_pc = "returned"
    /\ chain_contexts = <<>>
    /\ chain_fallback # NoGenerator

ResultKeys ==
    {"answer", "contexts", "stats", "model", "prompt", "used_fallback",
     "error", "error_type"}

\* Both generate calls were made and neither produced an answer
BothWithoutAnswer ==
    /\ Len(generate_calls) = 2
    /\ \A k \in 1..2 : ~Truthy(generate_calls[k].result.answer)

\* Both generate calls were made and the model call of each raised
BothRaised ==
    /\ Len(generate_calls) = 2
    /\ \A k \in 1..2 : generate_calls[k].result.error # NoValue

\* C8 as stated: query never raises because of a generator, and when both
\* the primary and the fallback fail to produce an answer the result has an
\* empty answer with error and error_type populated.
C8_BothWithoutAnswerError ==
    /\ chain_pc # "raised"
    /\ (chain_pc = "returned" /\ BothWithoutAnswer)
       => /\ ~Truthy(chain_result.answer)
          /\ chain_result.error # NoValue
          /\ chain_result.error_type # NoValue

\* C8 amended: query never raises because of a generator and returns the
\* result dictionary after every generate call; when the model calls of
\* both the primary and the fallback raised, the result has answer None,
\* the text of the fallback's exception as error and its class as
\* error_type.
C8_BothRaisedError ==
    /\ chain_pc # "raised"
    /\ (chain_pc = "returned" /\ generate_calls # <<>>)
       => /\ DOMAIN chain_result = ResultKeys
          /\ chain_result.contexts = chain_contexts
          /\ chain_result.used_fallback = FallbackCalled
    /\ (chain_pc = "returned" /\ BothRaised)
       => /\ chain_result.answer = NoValue
          /\ chain_result.error = generate_calls[2].result.error
          /\ chain_result.error # NoValue
          /\ chain_result.error_type # NoValue
          /\ chain_result.error_type =
                Some(ClassifyError(chain_fallback, chain_result.error[1]))
          /\ chain_result.used_fallback

\* A query returned after the model calls of both generators raised
C8_Witness ==
    /\ chain_pc = "returned"
    /\ BothRaised
    /\ generate_calls[1].result.error_type = Some("RATE_LIMIT_ERROR")
    /\ chain_result.error_type = Some("AUTH_ERROR")

-----------------------------------------------------------------------------
(* Claims about reciprocal rank fusion *)

\* The 1-based place of id in a hit list, 0 when the list does not hold it
PlaceOf(hits, id) ==
    IF \E i \in 1..Len(hits) : ToString(hits[i].id) = id
    THEN CHOOSE i \in 1..Len(hits) : ToString(hits[i].id) = id
    ELSE 0

\* 1/(k + rank + 1) for the 0-based rank of id in the list, nothing when absent
Contribution(hits, id) ==
    IF PlaceOf(hits, id) = 0 THEN 0
    ELSE ScoreScale \div (60 + (PlaceOf(hits, id) - 1) + 1)

ExpectedScore(id) == Contribution(dense_hits, id) + Contribution(sparse_hits, id)

Searched == search_pc \in {"searched", "fused"}

\* C13: the score of every candidate search or fuse_results returns is the sum,
\* over the lists that hold the candidate, of 1/(k + rank + 1) with k = 60 and
\* rank its 0-based place in that list
C13_ScoreIsSumOfReciprocalRanks ==
    /\ Searched =>
          \A i \in 1..Len(search_result) :
              search_result[i].score = ExpectedScore(search_result[i].chunk.id)
    /\ search_pc = "fused" =>
          \A i \in 1..Len(fused_results) :
              fused_results[i].rrf_score = ExpectedScore(fused_results[i].id)

\* A candidate of both lists and a candidate of one list only are both returned
C13_Witness ==
    /\ search_pc = "fused"
    /\ \E i, j \in 1..Len(search_result) :
          /\ PlaceOf(dense_hits, search_result[i].chunk.id) > 1
          /\ PlaceOf(sparse_hits, search_result[i].chunk.id) > 0
          /\ PlaceOf(dense_hits, search_result[j].chunk.id) = 0
          /\ PlaceOf(sparse_hits, search_result[j].chunk.id) > 1
    /\ Len(fused_results) > 1

IdsOf(hits) == [i \in 1..Len(hits) |-> hits[i].id]

\* The example: dense list [d1, d2], sparse list [d2, d1, d3]
IsExample ==
    /\ Searched
    /\ IdsOf(dense_hits) = <<1, 2>>
    /\ IdsOf(sparse_hits) = <<2, 1, 3>>

\* The place of id in the list search returned, 0 when it is not returned
ResultPlace(id) ==
    IF \E i \in 1..Len(search_result) : search_result[i].chunk.id = id
    THEN CHOOSE i \in 1..Len(search_result) : search_result[i].chunk.id = id
    ELSE 0

FusedPlace(id) ==
    IF \E i \in 1..Len(fused_results) : fused_results[i].id = id
    THEN CHOOSE i \in 1..Len(fused_results) : fused_results[i].id = id
    ELSE 0

\* d1 and d2 are above d3, d1 has the score score_d1 and d3 has 1/63
ExampleFusedAs(score_d1) ==
    /\ ResultPlace("1") > 0 /\ ResultPlace("2") > 0 /\ ResultPlace("3") > 0
    /\ ResultPlace("1") < ResultPlace("3")
    /\ ResultPlace("2") < ResultPlace("3")
    /\ search_result[ResultPlace("1")].score = score_d1
    /\ search_result[ResultPlace("3")].score = ScoreScale \div 63
    /\ search_pc = "fused" =>
          /\ FusedPlace("1") > 0 /\ FusedPlace("2") > 0 /\ FusedPlace("3") > 0
          /\ FusedPlace("1") < FusedPlace("3")
          /\ FusedPlace("2") < FusedPlace("3")
          /\ fused_results[FusedPlace("1")].rrf_score = score_d1
          /\ fused_results[FusedPlace("3")].rrf_score = ScoreScale \div 63

\* C14, as stated: fusing dense [d1, d2] with sparse [d2, d1, d3] puts d1 and
\* d2 above d3, gives d1 the score 1/61 + 1/61 and d3 the score 1/63
C14_ExampleAsStated ==
    IsExample => ExampleFusedAs(ScoreScale \div 61 + ScoreScale \div 61)

\* C14, amended: fusing dense [d1, d2] with sparse [d2, d1, d3] puts d1 and d2
\* above d3, gives d1 the score 1/61 + 1/62 (rank 0 in the dense list, rank 1
\* in the sparse list) and d3 the score 1/63
C14_ExampleScores ==
    IsExample => ExampleFusedAs(ScoreScale \div 61 + ScoreScale \div 62)

C14_Witness ==
    /\ IsExample
    /\ search_pc = "fused"
    /\ Len(search_result) = 3
    /\ Len(fused_results) = 3

\* The hit that first introduced id: the dense hit when the dense list holds
\* the id, otherwise the sparse hit
FirstHit(id) ==
    IF PlaceOf(dense_hits, id) > 0
    THEN dense_hits[PlaceOf(dense_hits, id)]
    ELSE sparse_hits[PlaceOf(sparse_hits, id)]

InSomeList(id) == PlaceOf(dense_hits, id) > 0 \/ PlaceOf(sparse_hits, id) > 0

\* C15: the fused result holds each chunk id at most once, holds only ids of
\* the dense or the sparse hit list, and the fields of each chunk are those of
\* the hit that first introduced the id; a later hit with the same id does not
\* overwrite them
C15_OneChunkPerIdFromFirstHit ==
    /\ Searched =>
          \A i \in 1..Len(search_result) :
              LET id == search_result[i].chunk.id
              IN  /\ \A j \in 1..Len(search_result) :
                         j # i => search_result[j].chunk.id # id
                  /\ InSomeList(id)
                  /\ search_result[i].chunk.text = FirstHit(id).entity.text
    /\ search_pc = "fused" =>
          \A i \in 1..Len(fused_results) :
              LET id == fused_results[i].id
              IN  /\ \A j \in 1..Len(fused_results) :
                         j # i => fused_results[j].id # id
                  /\ InSomeList(id)
                  /\ fused_results[i].text = FirstHit(id).entity.text

\* An id of both lists is returned with the fields of its dense hit, next to
\* an id the sparse list alone holds
C15_Witness ==
    /\ search_pc = "fused"
    /\ \E i, j \in 1..Len(search_result) :
          /\ PlaceOf(dense_hits, search_result[i].chunk.id) > 0
          /\ PlaceOf(sparse_hits, search_result[i].chunk.id) > 0
          /\ search_result[i].chunk.text = "dense"
          /\ PlaceOf(dense_hits, search_result[j].chunk.id) = 0
          /\ search_result[j].chunk.text = "sparse"

\* When id was first introduced: the ids of the dense list in dense order,
\* then the ids the sparse list alone holds in sparse order
IntroducedAt(id) ==
    IF PlaceOf(dense_hits, id) > 0
    THEN PlaceOf(dense_hits, id)
    ELSE Len(dense_hits) + PlaceOf(sparse_hits, id)

CandidateIds ==
    { ToString(dense_hits[i].id) : i \in 1..Len(dense_hits) }
        \cup { ToString(sparse_hits[i].id) : i \in 1..Len(sparse_hits) }

\* C16: the list search returns is in non-increasing order of fused score, has
\* at most top_k entries whose rank fields are 1, 2, ..., n in list order, and
\* candidates of equal score are in the order in which they were introduced
C16_OrderedTruncatedRanked ==
    Searched =>
        /\ Len(search_result) <= search_top_k
        /\ \A i \in 1..Len(search_result) : search_result[i].rank = i
        /\ \A i, j \in 1..Len(search_result) :
              i < j =>
                  /\ search_result[i].score >= search_result[j].score
                  /\ search_result[i].score = search_result[j].score =>
                        IntroducedAt(search_result[i].chunk.id)
                            < IntroducedAt(search_result[j].chunk.id)

\* More candidates than top_k, and two returned candidates with one score
C16_Witness ==
    /\ Searched
    /\ Cardinality(CandidateIds) > search_top_k
    /\ Len(search_result) = search_top_k
    /\ \E i, j \in 1..Len(search_result) :
          /\ i < j
          /\ search_result[i].score = search_result[j].score
          /\ PlaceOf(dense_hits, search_result[j].chunk.id) = 0

\* The ids and the scores of a list search returned, in list order
IdsAndScores(results) ==
    [i \in 1..Len(results) |-> <<results[i].chunk.id, results[i].score>>]

FusedIdsAndScores(docs) ==
    [i \in 1..Len(docs) |-> <<docs[i].id, docs[i].rrf_score>>]

\* What search returns with the two hit lists exchanged
SwappedResult == Search(sparse_hits, dense_hits, search_top_k)

SwappedFused == FuseResults(DocsOfHits(sparse_hits), DocsOfHits(dense_hits))

\* C17, as stated: fusing (A as dense, B as sparse) and (B as dense, A as
\* sparse) return the same ids, in the same order, with the same scores
C17_Commutative ==
    /\ Searched => IdsAndScores(search_result) = IdsAndScores(SwappedResult)
    /\ search_pc = "fused" =>
          FusedIdsAndScores(fused_results) = FusedIdsAndScores(SwappedFused)

\* No two candidates have the same fused score
NoTies ==
    \A a, b \in CandidateIds : a # b => ExpectedScore(a) # ExpectedScore(b)

\* C17, amended: with the two lists exchanged every candidate has the same
\* fused score, and when no two candidates have equal scores the same ranked
\* list is returned
C17_CommutativeUpToTies ==
    /\ Searched =>
          /\ \A id \in CandidateIds :
                ValueOf(Fuse(dense_hits, sparse_hits).rrf_scores, id)
                    = ValueOf(Fuse(sparse_hits, dense_hits).rrf_scores, id)
          /\ NoTies => IdsAndScores(search_result) = IdsAndScores(SwappedResult)
    /\ search_pc = "fused" =>
          /\ { FusedIdsAndScores(fused_results)[i] : i \in 1..Len(fused_results) }
                = { FusedIdsAndScores(SwappedFused)[i] : i \in 1..Len(SwappedFused) }
          /\ NoTies => FusedIdsAndScores(fused_results) = FusedIdsAndScores(SwappedFused)

\* Two different lists that share an id, three candidates, no equal scores
C17_Witness ==
    /\ search_pc = "fused"
    /\ NoTies
    /\ IdsOf(dense_hits) # IdsOf(sparse_hits)
    /\ Len(dense_hits) > 0
    /\ Len(sparse_hits) > 1
    /\ Cardinality(CandidateIds) = 3
    /\ Len(search_result) >= 2

-----------------------------------------------------------------------------
(* Claims about HybridRetriever.retrieve *)

Reranked == Len(rerank_calls) = 1

\* The returned list is the top_n of the candidates by rerank score
TopNByRerankScore ==
    /\ Len(final_results) = Min(retrieve_args.top_n, Len(candidates))
    /\ \A i \in 1..Len(final_results) :
          \E c \in 1..Len(candidates) :
              /\ final_results[i].text = candidates[c].text
              /\ final_results[i].rerank_score = rerank_calls[1].scores[c]
              /\ \A d \in 1..Len(candidates) :
                    rerank_calls[1].scores[d] > rerank_calls[1].scores[c] =>
                        \E j \in 1..(i - 1) : final_results[j].text = candidates[d].text
    /\ \A i, j \in 1..Len(final_results) :
          i < j => final_results[i].rerank_score >= final_results[j].rerank_score

\* C18: the use_reranker argument takes precedence over settings.enable_reranker:
\* with True the reranker scores the candidates and the top_n by rerank score
\* are returned, with False the reranker is never called, and only with None
\* does the global default decide
C18_UseRerankerOverridesSetting ==
    retrieve_pc = "done" =>
        /\ retrieve_args.use_reranker = Some(TRUE) => Reranked /\ TopNByRerankScore
        /\ retrieve_args.use_reranker = Some(FALSE) => rerank_calls = <<>>
        /\ retrieve_args.use_reranker = NoValue => (Reranked <=> enable_reranker)

\* C19: when retrieve does not rerank, it returns the first min(top_n, number
\* of fused candidates) fused candidates in fused order, each with rerank_score
\* equal to its fusion score, and stats has reranking_ms = 0, final_count the
\* length of the returned list and candidates_count the number of candidates
C19_NoRerankTruncatesFusedList ==
    (retrieve_pc = "done" /\ rerank_calls = <<>>) =>
        /\ Len(final_results) = Min(retrieve_args.top_n, Len(search_result))
        /\ \A i \in 1..Len(final_results) :
              /\ final_results[i].text = search_result[i].chunk.text
              /\ final_results[i].retrieval_score = search_result[i].score
              /\ final_results[i].rerank_score = search_result[i].score
        /\ pipeline_stats.reranking_ms = 0
        /\ pipeline_stats.final_count = Len(final_results)
        /\ pipeline_stats.candidates_count = Len(search_result)

\* More fused candidates than top_n, and no reranking
C19_Witness ==
    /\ retrieve_pc = "done"
    /\ rerank_calls = <<>>
    /\ retrieve_args.top_n = 2
    /\ Len(search_result) = 3
    /\ Len(final_results) = 2
    /\ search_result[1].score > search_result[2].score

FilterFields ==
    IF retrieve_args.filters = NoValue THEN <<>> ELSE retrieve_args.filters[1]

\* The one condition a field stands for: "is one of" for a list value,
\* equality for a scalar value
ExpectedCondition(key, value) ==
    IF value.type = "list"
    THEN key \o " in ["
             \o JoinStrings([i \in 1..Len(value.items) |->
                                Quote \o value.items[i] \o Quote], ",")
             \o "]"
    ELSE IF value.type = "str"
    THEN key \o " == " \o Quote \o value.items[1] \o Quote
    ELSE key \o " == " \o value.items[1]

\* C20: _build_filter_expr turns every field of filters into exactly one
\* condition, "is one of" for a list value and equality for a scalar value,
\* joined with "and"; the result is None only when filters is absent or empty,
\* and the same expression is given to the dense and to the sparse search
C20_EveryFieldOneCondition ==
    retrieve_pc \in {"searched", "done"} =>
        /\ search_exprs[1] = search_exprs[2]
        /\ search_exprs[1] = NoExpr <=> FilterFields = <<>>
        /\ FilterFields # <<>> =>
              search_exprs[1] =
                  Some(JoinStrings([i \in 1..Len(FilterFields) |->
                                       ExpectedCondition(FilterFields[i][1],
                                                         FilterFields[i][2])],
                                   " and "))

-----------------------------------------------------------------------------
(* Claims about RAGChain.query_with_verification *)

\* query_with_verification returned and the judge was asked
Judged == verify_pc = "returned" /\ Len(judge_calls) = 1

\* The judge returned a text that holds the word, in any letter case
ResponseHas(word) ==
    /\ ~judge_calls[1].raises
    /\ judge_calls[1].text # NoValue
    /\ Contains(UpperSeq(judge_calls[1].text[1]), word)

VerdictIs(verdict, score) ==
    /\ verified_result.faithfulness_verdict = verdict
    /\ verified_result.faithfulness_score = score

\* C21, as stated: a response with NOT_SUPPORTED gives NOT_SUPPORTED and 0.0,
\* one with SUPPORTED but not NOT_SUPPORTED gives SUPPORTED and 1.0, any other
\* response gives 0.5, and a judge call that raises gives ERROR and 0.0
C21_VerdictByResponse ==
    Judged =>
        /\ ResponseHas(Word_NOT_SUPPORTED) => VerdictIs("NOT_SUPPORTED", 0)
        /\ (ResponseHas(Word_SUPPORTED) /\ ~ResponseHas(Word_NOT_SUPPORTED))
              => VerdictIs("SUPPORTED", 10)
        /\ (~judge_calls[1].raises /\ ~ResponseHas(Word_SUPPORTED))
              => verified_result.faithfulness_score = 5
        /\ judge_calls[1].raises => VerdictIs("ERROR", 0)

\* C21, amended: as stated for a response that is a text; a judge call that
\* raises, or that returns no text at all, gives ERROR and 0.0
C21_VerdictByTextResponse ==
    Judged =>
        /\ ResponseHas(Word_NOT_SUPPORTED) => VerdictIs("NOT_SUPPORTED", 0)
        /\ (ResponseHas(Word_SUPPORTED) /\ ~ResponseHas(Word_NOT_SUPPORTED))
              => VerdictIs("SUPPORTED", 10)
        /\ (~judge_calls[1].raises /\ judge_calls[1].text # NoValue
               /\ ~ResponseHas(Word_SUPPORTED))
              => verified_result.faithfulness_score = 5
        /\ (judge_calls[1].raises \/ judge_calls[1].text = NoValue)
              => VerdictIs("ERROR", 0)

\* The judge answered NOT_SUPPORTED, which holds the word SUPPORTED too
C21_Witness ==
    /\ Judged
    /\ ResponseHas(Word_NOT_SUPPORTED)
    /\ ResponseHas(Word_SUPPORTED)
    /\ VerdictIs("NOT_SUPPORTED", 0)

\* C22: query_with_verification returns what query returned, with nothing
\* changed and only faithfulness_verdict and faithfulness_score added,
\* whatever the judge did
C22_OnlyAnnotates ==
    verify_pc = "returned" =>
        /\ \A key \in DOMAIN chain_result : verified_result[key] = chain_result[key]
        /\ DOMAIN verified_result \subseteq
               DOMAIN chain_result \cup {"faithfulness_verdict", "faithfulness_score"}
        /\ Judged <=> "faithfulness_verdict" \in DOMAIN verified_result
        /\ Judged <=> "faithfulness_score" \in DOMAIN verified_result

\* The judge found the fallback's answer unsupported and the answer is kept
C22_Witness ==
    /\ Judged
    /\ VerdictIs("NOT_SUPPORTED", 0)
    /\ chain_result.used_fallback
    /\ verified_result.answer = Some("an answer")
    /\ verified_result.used_fallback

-----------------------------------------------------------------------------
(* Claims about the process-wide models *)

LoadsOf(c) == Cardinality({ k \in 1..Len(model_loads) : model_loads[k] = c })

\* The thread has its object: __new__ has returned
HasObject(t) == ctor_pc[t] \in {"init", "load", "done", "raised"}

\* C23: whatever the interleaving of the threads that construct BGEEmbedder
\* (or BGEM3Reranker), the model of the class is loaded a single time and
\* every constructor call returns the same instance
C23_LoadedOnceOneInstance ==
    \A c \in SingletonClasses :
        /\ LoadsOf(c) <= 1
        /\ \A t, u \in Threads :
              (ctor_cls[t] = c /\ ctor_cls[u] = c /\ HasObject(t) /\ HasObject(u))
                  => ctor_obj[t] = ctor_obj[u]
-----------------------------------------------------------------------------
(* Claims about the pipeline IndexingService builds *)

\* The chunk carries the vectors computed from its own text
HasOwnVectors(chunk) ==
    /\ chunk.dense_vector = DenseOf(chunk.text)
    /\ chunk.sparse_vector = SparseOf(chunk.text)

\* C24: in the pipeline of IndexingService the stages of a file run in the
\* order Load, Metadata, Chunk, Embed, Store, Verify, each at most once, and
\* when the Store stage is about to call insert the Embed stage has run for
\* the file, so every chunk handed to insert has its dense and its sparse
\* vector, each computed from the text of that chunk.
C24_StoreAfterEmbedWithOwnVectors ==
    /\ ran = InOrder(Len(ran))
    /\ \A k \in 1..Len(ran) :
          stages[ran[k]] = <<"Load", "Metadata", "Chunk", "Embed", "Store", "Verify">>[k]
    /\ AtStage("Store") =>
          /\ \E k \in 1..Len(ran) : stages[ran[k]] = "Embed"
          /\ payload.kind = "chunks"
          /\ \A i \in 1..Len(payload.chunks) : HasOwnVectors(payload.chunks[i])

\* The Store stage is about to insert two chunks with different texts
C24_Witness ==
    /\ AtStage("Store")
    /\ payload.kind = "chunks"
    /\ Len(payload.chunks) >= 2
    /\ payload.chunks[1].text # payload.chunks[2].text
    /\ ran = <<1, 2, 3, 4>>
-----------------------------------------------------------------------------
(* Claims about the generate calls of one RAGChain.query *)

\* The generate calls made on the named generator
CallsOf(who) ==
    {k \in 1..Len(generate_calls) : generate_calls[k].generator = who}

\* The result of the generate call made last
LastResult == generate_calls[Len(generate_calls)].result

\* C25: in a query, primary.generate is called at most once and only when
\* retrieval returned at least one context; fallback.generate is called at
\* most once and only after primary.generate returned without an answer;
\* used_fallback of the result is true exactly when fallback.generate was
\* called; and answer, model, error and error_type of the result are those
\* of the generator called last.
C25_GenerateCallsAndResult ==
    /\ Cardinality(CallsOf("primary")) <= 1
    /\ Cardinality(CallsOf("fallback")) <= 1
    /\ CallsOf("primary") # {} => chain_contexts # <<>> /\ chain_pc # "start"
    /\ \A k \in CallsOf("fallback") :
          /\ k = 2
          /\ generate_calls[1].generator = "primary"
          /\ ~generate_calls[1].raised
          /\ ~Truthy(generate_calls[1].result.answer)
    /\ chain_pc = "returned" =>
          /\ chain_result.used_fallback = (CallsOf("fallback") # {})
          /\ generate_calls # <<>> =>
                /\ chain_result.answer = LastResult.answer
                /\ chain_result.model = LastResult.model
                /\ chain_result.error = LastResult.error
                /\ chain_result.error_type = LastResult.error_type

\* A query returned the answer of the fallback after the primary failed
C25_Witness ==
    /\ chain_pc = "returned"
    /\ Len(generate_calls) = 2
    /\ chain_primary # chain_fallback
    /\ PrimaryResult.error_type = Some("RATE_LIMIT_ERROR")
    /\ Truthy(chain_result.answer)
    /\ chain_result.model = Some(ModelName(chain_fallback))
    /\ chain_result.used_fallback
-----------------------------------------------------------------------------
(* Claims about the error classes of the generators *)

\* The four error classes
FourErrorClasses ==
    {"RATE_LIMIT_ERROR", "API_UNAVAILABLE", "AUTH_ERROR", "UNKNOWN_ERROR"}

\* C26: every generator classifies the exception of its model call into one
\* of the four classes RATE_LIMIT, UNAVAILABLE, AUTH and UNKNOWN, so the
\* result of every generate call whose model call raised carries an
\* error_type of this set.
C26_OneOfFourErrorClasses ==
    \A k \in 1..Len(generate_calls) :
        LET result == generate_calls[k].result
        IN  result.error # NoValue =>
               /\ ClassifyError(generate_calls[k].provider, result.error[1])
                     \in FourErrorClasses
               /\ \E class \in FourErrorClasses : result.error_type = Some(class)
-----------------------------------------------------------------------------
(* Claims about the labels of the chunks of split *)

IsChapterHeader(k) == CHAPTER_PATTERN(Strip(split_lines[k])).ok

IsArticleHeader(k) == ~IsChapterHeader(k) /\ ARTICLE_PATTERN(Strip(split_lines[k])).ok

\* The label of the last chapter header among the lines 1..n, if any
RECURSIVE RecentChapter(_)
RecentChapter(n) ==
    IF n = 0 THEN NoLabel
    ELSE IF IsChapterHeader(n)
         THEN MarkerLabel(CHAPTER_PATTERN(Strip(split_lines[n])))
         ELSE RecentChapter(n - 1)

\* The label of the last article header among the lines 1..n, if any
RECURSIVE RecentArticle(_)
RecentArticle(n) ==
    IF n = 0 THEN NoLabel
    ELSE IF IsArticleHeader(n)
         THEN MarkerLabel(ARTICLE_PATTERN(Strip(split_lines[n])))
         ELSE RecentArticle(n - 1)

\* The first line of the block split is accumulating when the lines 1..n
\* have been read: the last header line, or line 1 when there is none
BlockStart(n) ==
    IF \E k \in 1..n : IsChapterHeader(k) \/ IsArticleHeader(k)
    THEN CHOOSE k \in 1..n :
            /\ IsChapterHeader(k) \/ IsArticleHeader(k)
            /\ \A j \in (k + 1)..n : ~(IsChapterHeader(j) \/ IsArticleHeader(j))
    ELSE 1

\* C27: when split meets a chapter or article header, or the end of the
\* lines, the block accumulated before is flushed into chunks whose chapter
\* and article are the last chapter header and the last article header at
\* or before the first line of that block (None when there is none), the
\* chunks flushed earlier keep theirs, and the header line starts the next
\* block.
C27_LabelsOfBlockStart ==
    [][ FlushesNow
        => LET before == split_state.chunks
               after  == IF split_pc' = "done" THEN split_result'
                                               ELSE split_state'.chunks
               start  == BlockStart(split_i - 1)
           IN  /\ Len(after) > Len(before)
               /\ \A i \in 1..Len(before) :
                     /\ after[i].chapter = before[i].chapter
                     /\ after[i].article = before[i].article
                     /\ after[i].text = before[i].text
               /\ \A i \in (Len(before) + 1)..Len(after) :
                     /\ after[i].chapter = RecentChapter(start)
                     /\ after[i].article = RecentArticle(start)
               /\ split_pc' # "done" =>
                     /\ split_state'.current_block = <<Strip(split_lines[split_i])>>
                     /\ split_state'.current_chapter = RecentChapter(split_i)
                     /\ split_state'.current_article = RecentArticle(split_i)
      ]_vars

\* A finished split of a text with a plain line, a chapter header and an
\* article header: the chunk of each block has the labels of its first line
C27_Witness ==
    /\ split_pc = "done"
    /\ Len(split_result) = 3
    /\ split_result[1].chapter = NoLabel
    /\ split_result[1].article = NoLabel
    /\ split_result[2].chapter # NoLabel
    /\ split_result[2].article = NoLabel
    /\ split_result[3].chapter = split_result[2].chapter
    /\ split_result[3].article # NoLabel
-----------------------------------------------------------------------------
(* Claims about the ids of the stored chunks *)

\* C28: the chunks inserted into the vector store during one index_directory
\* run have pairwise distinct ids, the id being taken as the pair of document
\* id and ordinal its hash is computed from.
C28_DistinctChunkIds ==
    \A i, j \in 1..Len(vector_db) :
        i # j => vector_db[i] # vector_db[j]
-----------------------------------------------------------------------------
(* Claims about QueryService *)

\* The last query call served a cached result
ServedFromCache(call) ==
    /\ call.outcome = "returned"
    /\ call.result.from_cache

\* C29: whenever chain.query returns a result, with or without an answer,
\* and no cache entry is served, query returns that result with from_cache
\* False and does not raise, for every combination of the use_cache
\* argument and the enable_cache setting.
C29_ReturnsChainResult ==
    (svc_call.op = "query" /\ ~ServedFromCache(svc_call) /\ ~svc_call.chain.raises)
    => /\ svc_call.outcome = "returned"
       /\ svc_call.result = Update(svc_call.chain.result, [from_cache |-> FALSE])

\* A store of a result for the arguments of the call, made at most cache_ttl
\* seconds before the call
StoredInTime(call, stores) ==
    \E s \in stores :
        /\ s.question = call.question
        /\ s.kwargs = call.kwargs
        /\ Truthy(s.result.answer)
        /\ s.time <= call.time
        /\ call.time - s.time <= svc_cache_ttl

\* C30: a query call serves a cached result, without calling chain.query,
\* only if a result with a non-empty answer was stored for the same question
\* and keyword arguments at most cache_ttl seconds earlier and clear_cache
\* was not called since; in every other case it calls chain.query exactly
\* once; an expired entry is removed by the lookup; and a result without an
\* answer is never stored.
C30_ServesOnlyFreshStoredResults ==
    [][ svc_calls' = svc_calls + 1
        => LET call == svc_call'
               key  == CacheKey(call.question, call.kwargs)
           IN  /\ ServedFromCache(call) =>
                     /\ call.chain_calls = 0
                     /\ call.use_cache /\ svc_enable_cache
                     /\ StoredInTime(call, svc_stores)
               /\ ~ServedFromCache(call) => call.chain_calls = 1
               /\ ( /\ call.use_cache /\ svc_enable_cache
                    /\ key \in DOMAIN svc_cache
                    /\ call.time - svc_cache_times[key] > svc_cache_ttl )
                  => \/ key \notin DOMAIN svc_cache'
                     \/ svc_cache_times'[key] >= call.time
                        /\ svc_stores' # svc_stores
               /\ \A k \in DOMAIN svc_cache' :
                     Truthy(svc_cache'[k].answer)
               /\ DOMAIN svc_cache_times' = DOMAIN svc_cache'
      ]_vars

\* A call served an entry that was stored exactly cache_ttl seconds before
C30_Witness ==
    /\ svc_call.op = "query"
    /\ ServedFromCache(svc_call)
    /\ svc_call.time > 0
    /\ svc_cache_ttl > 0
    /\ svc_calls >= 2
    /\ \E s \in svc_stores : s.time = svc_call.time - svc_cache_ttl

====
